---- MODULE Spec2Model ----
(***************************************************************************)
(* The snapshot diff engine of snapdiff (package diff) and the assert      *)
(* command that consumes it.  Rows are Go map[string]any values loaded     *)
(* from JSON snapshots; compareRows classifies them into Inserted,         *)
(* Updated and Deleted by an identity key made by generateRowKey.          *)
(***************************************************************************)
EXTENDS Integers, Sequences, FiniteSets, TLC

\* The most rows one collection holds.
MaxRows == 2

\* The most rows that are loaded one by one into the two collections together.
MaxLoaded == 3

\* Table files changed by hand are at most MaxEdits at a time.
MaxEdits == 1

(***************************************************************************)
(* The value universe.  A value of a loaded row is a JSON value: a number  *)
(* (float64 after json.Unmarshal) or a string.  `text` is the content:     *)
(* the digits of the number, the characters of the string.                 *)
(***************************************************************************)
Num1 == [kind |-> "number", text |-> "1"]
Num2 == [kind |-> "number", text |-> "2"]
Str1 == [kind |-> "string", text |-> "1"]

Values == {Num1, Num2, Str1}

\* The column names of the model's tables, and every column name of the model
\* as sort.Strings orders them.
Columns == {"a", "id"}
SortedColumns == <<"a", "b", "id">>

\* A row: map[string]any, a mapping from some of the columns to values.
Rows == UNION {[cs -> Values] : cs \in SUBSET Columns}

TableName == "users"

(***************************************************************************)
(* fmt.Sprintf("%v", v): a float64 prints as its shortest decimal form, a  *)
(* string prints as its characters, without quotes.  The kind of the value *)
(* is not part of the output.                                              *)
(***************************************************************************)
Sprintf_v(v) ==
    CASE v.kind = "number" -> v.text
      [] v.kind = "string" -> v.text
      [] v.kind \in {"null", "boolean", "sequence", "mapping"} -> v.text

\* reflect.DeepEqual on two values: same dynamic type and same content.
DeepEqual(v1, v2) == v1.kind = v2.kind /\ v1.text = v2.text

\* The keys of a row in sort.Strings order.
SortedKeys(row) == SelectSeq(SortedColumns, LAMBDA k : k \in DOMAIN row)

RECURSIVE ConcatColumns(_, _)
ConcatColumns(row, keys) ==
    IF keys = <<>> THEN ""
    ELSE Head(keys) \o ":" \o Sprintf_v(row[Head(keys)]) \o ";"
         \o ConcatColumns(row, Tail(keys))

\* A plausible slip: the column names are sorted in descending order.
generateRowKey_Descending(row) ==
    IF "id" \in DOMAIN row
    THEN Sprintf_v(row["id"])
    ELSE ConcatColumns(row, [i \in 1..Len(SortedKeys(row)) |->
                                SortedKeys(row)[Len(SortedKeys(row)) + 1 - i]])

generateRowKey(row) ==
    IF "id" \in DOMAIN row
    THEN Sprintf_v(row["id"])
    ELSE ConcatColumns(row, SortedKeys(row))

\* A plausible slip: the ignore set is not consulted.
rowsEqual_IgnoreNothing(row1, row2, ignoreColumns) ==
    /\ \A key \in DOMAIN row1 :
           key \in DOMAIN row2 /\ DeepEqual(row1[key], row2[key])
    /\ \A key \in DOMAIN row2 : key \in DOMAIN row1

\* A plausible slip: the check for extra fields of row2 is inverted.
rowsEqual_ExtraInverted(row1, row2, ignoreColumns) ==
    /\ \A key \in DOMAIN row1 :
           key \in ignoreColumns
           \/ (key \in DOMAIN row2 /\ DeepEqual(row1[key], row2[key]))
    /\ \A key \in DOMAIN row2 :
           key \in ignoreColumns \/ key \notin DOMAIN row1

\* A plausible slip: the second loop does not skip the ignored columns.
rowsEqual_SecondLoopNoIgnore(row1, row2, ignoreColumns) ==
    /\ \A key \in DOMAIN row1 :
           key \in ignoreColumns
           \/ (key \in DOMAIN row2 /\ DeepEqual(row1[key], row2[key]))
    /\ \A key \in DOMAIN row2 : key \in DOMAIN row1

\* A plausible slip: the check for extra fields of row2 is left out.
rowsEqual_FirstLoopOnly(row1, row2, ignoreColumns) ==
    \A key \in DOMAIN row1 :
        key \in ignoreColumns
        \/ (key \in DOMAIN row2 /\ DeepEqual(row1[key], row2[key]))

rowsEqual(row1, row2, ignoreColumns) ==
    /\ \A key \in DOMAIN row1 :
           key \in ignoreColumns
           \/ (key \in DOMAIN row2 /\ DeepEqual(row1[key], row2[key]))
    /\ \A key \in DOMAIN row2 :
           key \in ignoreColumns \/ key \in DOMAIN row1

\* A plausible slip: the id projection is not taken.
extractPrimaryKey_WholeRow(row) == row

extractPrimaryKey(row) ==
    IF "id" \in DOMAIN row
    THEN [c \in {"id"} |-> row[c]]
    ELSE row

\* A plausible slip: the row is returned as it is.
filterIgnoredColumns_KeepAll(row, ignoreColumns) == row

filterIgnoredColumns(row, ignoreColumns) ==
    [key \in {k \in DOMAIN row : k \notin ignoreColumns} |-> row[key]]

(***************************************************************************)
(* The map compareRows builds from a collection: key -> row, where a later *)
(* row with the same key overwrites an earlier one.                        *)
(***************************************************************************)
\* A plausible slip: the first row with the key, not the last.
FirstIndex(rows, key) ==
    CHOOSE i \in DOMAIN rows :
        /\ generateRowKey(rows[i]) = key
        /\ \A j \in DOMAIN rows : generateRowKey(rows[j]) = key => j >= i

LastIndex(rows, key) ==
    CHOOSE i \in DOMAIN rows :
        /\ generateRowKey(rows[i]) = key
        /\ \A j \in DOMAIN rows : generateRowKey(rows[j]) = key => j <= i

\* A plausible slip: the first row with a key is kept.
RowMap_FirstWins(rows) ==
    [key \in {generateRowKey(rows[i]) : i \in DOMAIN rows} |->
        rows[FirstIndex(rows, key)]]

RowMap(rows) ==
    [key \in {generateRowKey(rows[i]) : i \in DOMAIN rows} |->
        rows[LastIndex(rows, key)]]

(***************************************************************************)
(* `for key, row := range m` visits every key of a Go map once, in an      *)
(* order the language leaves unspecified: any enumeration of the keys.     *)
(***************************************************************************)
RangeOrders(m) ==
    LET n == Cardinality(DOMAIN m)
    IN  {o \in [1..n -> DOMAIN m] : \A k \in DOMAIN m : \E i \in 1..n : o[i] = k}

RowsAt(m, keys) == [i \in 1..Len(keys) |-> m[keys[i]]]

UpdatedRowOf(fromMap, toMap, ignoreColumns, key) ==
    [PrimaryKey |-> extractPrimaryKey(fromMap[key]),
     Before     |-> filterIgnoredColumns(fromMap[key], ignoreColumns),
     After      |-> filterIgnoredColumns(toMap[key], ignoreColumns)]

\* A plausible slip: the Inserted loop does not test fromMap.
compareRows_InsertAll(tableName, fromRows, toRows, ignoreColumns, toOrder, fromOrder1, fromOrder2) ==
    LET fromMap == RowMap(fromRows)
        toMap   == RowMap(toRows)
        updKeys == SelectSeq(fromOrder2, LAMBDA k :
                       k \in DOMAIN toMap
                       /\ ~rowsEqual(fromMap[k], toMap[k], ignoreColumns))
    IN  [TableName |-> tableName,
         Inserted  |-> RowsAt(toMap, toOrder),
         Deleted   |-> RowsAt(fromMap,
                           SelectSeq(fromOrder1, LAMBDA k : k \notin DOMAIN toMap)),
         Updated   |-> [i \in 1..Len(updKeys) |->
                           UpdatedRowOf(fromMap, toMap, ignoreColumns, updKeys[i])]]

\* A plausible slip: the Deleted loop tests `exists` where it means `!exists`.
compareRows_DeleteMatched(tableName, fromRows, toRows, ignoreColumns, toOrder, fromOrder1, fromOrder2) ==
    LET fromMap == RowMap(fromRows)
        toMap   == RowMap(toRows)
        updKeys == SelectSeq(fromOrder2, LAMBDA k :
                       k \in DOMAIN toMap
                       /\ ~rowsEqual(fromMap[k], toMap[k], ignoreColumns))
    IN  [TableName |-> tableName,
         Inserted  |-> RowsAt(toMap,
                           SelectSeq(toOrder, LAMBDA k : k \notin DOMAIN fromMap)),
         Deleted   |-> RowsAt(fromMap,
                           SelectSeq(fromOrder1, LAMBDA k : k \in DOMAIN toMap)),
         Updated   |-> [i \in 1..Len(updKeys) |->
                           UpdatedRowOf(fromMap, toMap, ignoreColumns, updKeys[i])]]

\* A plausible slip: the rows of Inserted and Deleted are stripped of the
\* ignored columns like Before and After.
compareRows_FilterDumps(tableName, fromRows, toRows, ignoreColumns, toOrder, fromOrder1, fromOrder2) ==
    LET fromMap == RowMap(fromRows)
        toMap   == RowMap(toRows)
        insKeys == SelectSeq(toOrder, LAMBDA k : k \notin DOMAIN fromMap)
        delKeys == SelectSeq(fromOrder1, LAMBDA k : k \notin DOMAIN toMap)
        updKeys == SelectSeq(fromOrder2, LAMBDA k :
                       k \in DOMAIN toMap
                       /\ ~rowsEqual(fromMap[k], toMap[k], ignoreColumns))
    IN  [TableName |-> tableName,
         Inserted  |-> [i \in 1..Len(insKeys) |->
                           filterIgnoredColumns(toMap[insKeys[i]], ignoreColumns)],
         Deleted   |-> [i \in 1..Len(delKeys) |->
                           filterIgnoredColumns(fromMap[delKeys[i]], ignoreColumns)],
         Updated   |-> [i \in 1..Len(updKeys) |->
                           UpdatedRowOf(fromMap, toMap, ignoreColumns, updKeys[i])]]

(***************************************************************************)
(* compareRows.  toOrder, fromOrder1 and fromOrder2 are the orders in      *)
(* which its three range loops visit toMap, fromMap and fromMap again.     *)
(***************************************************************************)
compareRows(tableName, fromRows, toRows, ignoreColumns, toOrder, fromOrder1, fromOrder2) ==
    LET fromMap == RowMap(fromRows)
        toMap   == RowMap(toRows)
        updKeys == SelectSeq(fromOrder2, LAMBDA k :
                       k \in DOMAIN toMap
                       /\ ~rowsEqual(fromMap[k], toMap[k], ignoreColumns))
    IN  [TableName |-> tableName,
         Inserted  |-> RowsAt(toMap,
                           SelectSeq(toOrder, LAMBDA k : k \notin DOMAIN fromMap)),
         Deleted   |-> RowsAt(fromMap,
                           SelectSeq(fromOrder1, LAMBDA k : k \notin DOMAIN toMap)),
         Updated   |-> [i \in 1..Len(updKeys) |->
                           UpdatedRowOf(fromMap, toMap, ignoreColumns, updKeys[i])]]

\* Every TableDiff compareRows can return for the given arguments.
Diffs(tableName, fromRows, toRows, ignoreColumns) ==
    {compareRows(tableName, fromRows, toRows, ignoreColumns, o1, o2, o3) :
        o1 \in RangeOrders(RowMap(toRows)),
        o2 \in RangeOrders(RowMap(fromRows)),
        o3 \in RangeOrders(RowMap(fromRows))}

EmptyDiff == [TableName |-> TableName, Inserted |-> <<>>, Deleted |-> <<>>, Updated |-> <<>>]

(***************************************************************************)
(* json.Marshal, as compareJSON uses it: a number prints as its digits, a  *)
(* string in quotes, a map as its fields in sorted key order, a slice as   *)
(* its elements in order.                                                  *)
(***************************************************************************)
\* A plausible slip: a string is printed without its quotes.
MarshalValue_Unquoted(v) == v.text

MarshalValue(v) ==
    CASE v.kind = "number" -> v.text
      [] v.kind = "string" -> "\"" \o v.text \o "\""

RECURSIVE MarshalFields(_, _)
MarshalFields(row, keys) ==
    IF keys = <<>> THEN ""
    ELSE "\"" \o Head(keys) \o "\":" \o MarshalValue(row[Head(keys)])
         \o (IF Tail(keys) = <<>> THEN "" ELSE ",")
         \o MarshalFields(row, Tail(keys))

MarshalRow(row) == "{" \o MarshalFields(row, SortedKeys(row)) \o "}"

RECURSIVE MarshalRows(_)
MarshalRows(rows) ==
    IF rows = <<>> THEN ""
    ELSE MarshalRow(Head(rows))
         \o (IF Tail(rows) = <<>> THEN "" ELSE ",")
         \o MarshalRows(Tail(rows))

\* One entry of "updated": map[string]any{"primary_key", "before", "after"}.
MarshalUpdatedRow(u) ==
    "{\"after\":" \o MarshalRow(u.after)
    \o ",\"before\":" \o MarshalRow(u.before)
    \o ",\"primary_key\":" \o MarshalRow(u.primary_key) \o "}"

RECURSIVE MarshalUpdatedRows(_)
MarshalUpdatedRows(us) ==
    IF us = <<>> THEN ""
    ELSE MarshalUpdatedRow(Head(us))
         \o (IF Tail(us) = <<>> THEN "" ELSE ",")
         \o MarshalUpdatedRows(Tail(us))

\* The bucket names in sorted order.
SortedBuckets == <<"deleted", "inserted", "updated">>

RECURSIVE MarshalBuckets(_, _)
MarshalBuckets(tableMap, names) ==
    IF names = <<>> THEN ""
    ELSE "\"" \o Head(names) \o "\":["
         \o (IF Head(names) = "updated"
             THEN MarshalUpdatedRows(tableMap[Head(names)])
             ELSE MarshalRows(tableMap[Head(names)]))
         \o "]"
         \o (IF Tail(names) = <<>> THEN "" ELSE ",")
         \o MarshalBuckets(tableMap, Tail(names))

MarshalTable(tableMap) ==
    "{" \o MarshalBuckets(tableMap,
               SelectSeq(SortedBuckets, LAMBDA b : b \in DOMAIN tableMap)) \o "}"

\* The table names of the model, and the same names in sorted order.
TableNames == {"orders", "users"}
SortedTables == <<"orders", "users">>

RECURSIVE MarshalTables(_, _)
MarshalTables(payload, names) ==
    IF names = <<>> THEN ""
    ELSE "\"" \o Head(names) \o "\":" \o MarshalTable(payload[Head(names)])
         \o (IF Tail(names) = <<>> THEN "" ELSE ",")
         \o MarshalTables(payload, Tail(names))

\* The nil map json.Unmarshal leaves for the document `null`.
NilMap == [t \in {"<nil>"} |-> <<>>]

Marshal(payload) ==
    IF payload = NilMap THEN "null"
    ELSE "{" \o MarshalTables(payload,
                    SelectSeq(SortedTables, LAMBDA t : t \in DOMAIN payload)) \o "}"

compareJSON(expected, actual) == Marshal(expected) = Marshal(actual)

(***************************************************************************)
(* The canonical form runAssertCmd builds from result.Tables: a bucket is  *)
(* present only when it is not empty, a table only when it has a bucket.   *)
(***************************************************************************)
CanonicalUpdated(updated) ==
    [i \in 1..Len(updated) |->
        [primary_key |-> updated[i].PrimaryKey,
         before      |-> updated[i].Before,
         after       |-> updated[i].After]]

\* A plausible slip: the three buckets are always written.
TableMapOf_AllBuckets(tableDiff) ==
    [b \in {"inserted", "updated", "deleted"} |->
        CASE b = "inserted" -> tableDiff.Inserted
          [] b = "updated"  -> CanonicalUpdated(tableDiff.Updated)
          [] b = "deleted"  -> tableDiff.Deleted]

TableMapOf(tableDiff) ==
    LET present == {b \in {"inserted", "updated", "deleted"} :
                       \/ b = "inserted" /\ Len(tableDiff.Inserted) > 0
                       \/ b = "updated" /\ Len(tableDiff.Updated) > 0
                       \/ b = "deleted" /\ Len(tableDiff.Deleted) > 0}
    IN  [b \in present |->
            CASE b = "inserted" -> tableDiff.Inserted
              [] b = "updated"  -> CanonicalUpdated(tableDiff.Updated)
              [] b = "deleted"  -> tableDiff.Deleted]

ResultMap(tables) ==
    [t \in {n \in DOMAIN tables : DOMAIN TableMapOf(tables[n]) # {}} |->
        TableMapOf(tables[t])]

\* The expected payload `{}`.
EmptyPayload == [t \in {} |-> <<>>]

(***************************************************************************)
(* The snapshot store (package storage) as diff.Run reads it.  A snapshot  *)
(* is a directory snapshots/<label> that SaveSnapshot creates with the     *)
(* first table file; a table file holds the JSON of the table's rows, and  *)
(* is modelled by the rows json.Unmarshal reads back from it.              *)
(***************************************************************************)
Labels == {"pre", "post"}

RowA  == [c \in {"id"} |-> Num1]
RowA2 == [c \in {"a", "id"} |-> IF c = "id" THEN Num1 ELSE Num2]
RowB  == [c \in {"id"} |-> Num2]

\* The contents a table file can have: no rows, one row, the row changed, two
\* rows, two rows of one identity key.
TableContents == {<<>>, <<RowA>>, <<RowA2>>, <<RowA, RowB>>, <<RowA, RowA2>>}

\* A snapshot directory: its table files, and the files among them that can
\* not be loaded: "unreadable" (no read permission) or "invalid" (content that
\* is not JSON).
NoSnapshot == [exists |-> FALSE, files |-> <<>>, unloadable |-> <<>>]

EmptyStore == [l \in Labels |-> NoSnapshot]

\* Storage.SaveSnapshot: MkdirAll of the snapshot directory, then the file of
\* the table is written, replacing an older one.  os.WriteFile replaces the
\* content of an existing file and keeps its permissions.
SaveSnapshotStore(st, label, tableName, data) ==
    [st EXCEPT ![label] =
        [exists |-> TRUE,
         files  |-> [t \in DOMAIN st[label].files \cup {tableName} |->
                        IF t = tableName THEN data ELSE st[label].files[t]],
         unloadable |->
             [t \in {u \in DOMAIN st[label].unloadable :
                        u # tableName \/ st[label].unloadable[u] = "unreadable"} |->
                 st[label].unloadable[t]]]]

\* A plausible slip: the error of json.Unmarshal is dropped and the data read
\* so far is returned.
LoadSnapshot_InvalidIsData(st, label, tableName) ==
    IF /\ st[label].exists
       /\ tableName \in DOMAIN st[label].files
       /\ (tableName \in DOMAIN st[label].unloadable
               => st[label].unloadable[tableName] = "invalid")
    THEN [err |-> FALSE, data |-> st[label].files[tableName]]
    ELSE [err |-> TRUE, data |-> <<>>]

\* Storage.LoadSnapshot: an error when the file does not exist, can not be
\* read or is not JSON.
LoadSnapshot(st, label, tableName) ==
    IF /\ st[label].exists
       /\ tableName \in DOMAIN st[label].files
       /\ tableName \notin DOMAIN st[label].unloadable
    THEN [err |-> FALSE, data |-> st[label].files[tableName]]
    ELSE [err |-> TRUE, data |-> <<>>]

\* Storage.ListSnapshotTables: an error when the directory does not exist.
ListSnapshotTables(st, label) ==
    IF st[label].exists
    THEN [err |-> FALSE, tables |-> DOMAIN st[label].files]
    ELSE [err |-> TRUE, tables |-> {}]

\* convertToMapSlice: the elements of the loaded data that are objects.
convertToMapSlice(data) ==
    SelectSeq(data, LAMBDA x : DOMAIN x \subseteq {"a", "b", "id"})

(***************************************************************************)
(* diff.Run.  opts is [From, To, Tables, IgnoreColumns, OnlyChanged];      *)
(* Tables is the --table list, empty for all tables.                       *)
(***************************************************************************)
\* Lines 39-66: the tables to diff, or the error of a listing.
ResolveTables(st, opts) ==
    IF Len(opts.Tables) > 0
    THEN [err |-> "", tables |-> opts.Tables]
    ELSE IF ListSnapshotTables(st, opts.From).err
         THEN [err |-> "failed to list tables in 'from' snapshot", tables |-> <<>>]
    ELSE IF ListSnapshotTables(st, opts.To).err
         THEN [err |-> "failed to list tables in 'to' snapshot", tables |-> <<>>]
    ELSE [err |-> "",
          tables |-> SelectSeq(SortedTables, LAMBDA t :
                         t \in ListSnapshotTables(st, opts.From).tables
                               \cup ListSnapshotTables(st, opts.To).tables)]

\* Lines 78-91: the rows of a table on one side; a failed load is no rows.
LoadedRows(st, label, tableName) ==
    convertToMapSlice(IF LoadSnapshot(st, label, tableName).err
                      THEN <<>>
                      ELSE LoadSnapshot(st, label, tableName).data)

IsUnchanged(tableDiff) ==
    /\ Len(tableDiff.Inserted) = 0
    /\ Len(tableDiff.Updated) = 0
    /\ Len(tableDiff.Deleted) = 0

\* A plausible slip: only Inserted and Deleted are tested.
Skipped_UpdatedForgotten(opts, tableDiff) ==
    opts.OnlyChanged /\ Len(tableDiff.Inserted) = 0 /\ Len(tableDiff.Deleted) = 0

\* Line 98: the table is left out of the result.
Skipped(opts, tableDiff) == opts.OnlyChanged /\ IsUnchanged(tableDiff)

\* The TableDiffs compareRows can return for a table of the run.
TableDiffs(st, opts, tableName) ==
    Diffs(tableName, LoadedRows(st, opts.From, tableName),
          LoadedRows(st, opts.To, tableName), opts.IgnoreColumns)

\* A plausible slip: a table that neither snapshot holds is passed over.
RunTables_MissingPassedOver(st, opts, tables) ==
    {t \in {tables[i] : i \in DOMAIN tables} :
        /\ ~(LoadSnapshot(st, opts.From, t).err /\ LoadSnapshot(st, opts.To, t).err)
        /\ \E d \in TableDiffs(st, opts, t) : ~Skipped(opts, d)}

\* The tables that get an entry in result.Tables.  Whether a TableDiff is empty
\* does not depend on the order of its rows.
RunTables(st, opts, tables) ==
    {t \in {tables[i] : i \in DOMAIN tables} :
        \E d \in TableDiffs(st, opts, t) : ~Skipped(opts, d)}

\* Every (result, error) Run can return: one TableDiff per table of the result.
Run(st, opts) ==
    LET resolved == ResolveTables(st, opts)
        kept     == RunTables(st, opts, resolved.tables)
        all      == UNION {TableDiffs(st, opts, t) : t \in kept}
    IN  IF resolved.err # ""
        THEN {[err |-> resolved.err, Tables |-> <<>>]}
        ELSE {[err |-> "", Tables |-> f] :
                 f \in {g \in [kept -> all] :
                           \A t \in kept : g[t] \in TableDiffs(st, opts, t)}}

\* The --table lists of the model.
TableFilters == {<<>>, <<"users">>, <<"orders">>, <<"orders", "users">>}

\* The options of the model's runs: from `pre` to `post`.
RunOptions ==
    [From : {"pre"}, To : {"post"}, Tables : TableFilters,
     IgnoreColumns : {{}, {"a"}}, OnlyChanged : BOOLEAN]

NoOptions ==
    [From |-> "", To |-> "", Tables |-> <<>>, IgnoreColumns |-> {},
     OnlyChanged |-> FALSE]

NoOutcome == [err |-> "", Tables |-> <<>>]

(***************************************************************************)
(* The expected file of assert.  A JSON document keeps the order its       *)
(* fields were written in: an object is a sequence of <<name, value>>.     *)
(* json.Unmarshal turns each object into a map, which has no order.        *)
(***************************************************************************)
NoFile       == [kind |-> "none", tables |-> <<>>]        \* no such file
Malformed    == [kind |-> "malformed", tables |-> <<>>]   \* not JSON
ArrayDoc     == [kind |-> "array", tables |-> <<>>]       \* the document []
NullDoc      == [kind |-> "null", tables |-> <<>>]        \* the document null

Reverse(seq) == [i \in 1..Len(seq) |-> seq[Len(seq) + 1 - i]]

\* The names of an object in the order the document has them: sorted, or the
\* other way round.
Ordered(names, reversed) == IF reversed THEN Reverse(names) ELSE names

WriteRow(row, reversed) ==
    LET ks == Ordered(SortedKeys(row), reversed)
    IN  [i \in 1..Len(ks) |-> <<ks[i], row[ks[i]]>>]

WriteUpdated(u, reversed) ==
    LET ks == Ordered(<<"after", "before", "primary_key">>, reversed)
    IN  [i \in 1..Len(ks) |-> <<ks[i], WriteRow(u[ks[i]], reversed)>>]

WriteEntries(bucket, entries, reversed) ==
    [i \in 1..Len(entries) |->
        IF bucket = "updated" THEN WriteUpdated(entries[i], reversed)
        ELSE WriteRow(entries[i], reversed)]

WriteTable(tableMap, reversed) ==
    LET ks == Ordered(SelectSeq(SortedBuckets, LAMBDA b : b \in DOMAIN tableMap),
                      reversed)
    IN  [i \in 1..Len(ks) |-> <<ks[i], WriteEntries(ks[i], tableMap[ks[i]], reversed)>>]

\* The document of a payload.
WriteDoc(payload, reversed) ==
    LET ks == Ordered(SelectSeq(SortedTables, LAMBDA t : t \in DOMAIN payload),
                      reversed)
    IN  [kind   |-> "object",
         tables |-> [i \in 1..Len(ks) |->
                        <<ks[i], WriteTable(payload[ks[i]], reversed)>>]]

\* The map json.Unmarshal builds from the fields of an object: of two fields
\* of one name the later one stays.
ObjectOf(fields) ==
    [k \in {fields[i][1] : i \in DOMAIN fields} |->
        fields[CHOOSE i \in DOMAIN fields :
                   /\ fields[i][1] = k
                   /\ \A j \in DOMAIN fields : fields[j][1] = k => j <= i][2]]

UnmarshalRow(rowDoc) == ObjectOf(rowDoc)

UnmarshalUpdated(entryDoc) ==
    [f \in DOMAIN ObjectOf(entryDoc) |-> UnmarshalRow(ObjectOf(entryDoc)[f])]

UnmarshalEntries(bucket, entries) ==
    [i \in 1..Len(entries) |->
        IF bucket = "updated" THEN UnmarshalUpdated(entries[i])
        ELSE UnmarshalRow(entries[i])]

UnmarshalTable(tableDoc) ==
    [b \in DOMAIN ObjectOf(tableDoc) |-> UnmarshalEntries(b, ObjectOf(tableDoc)[b])]

\* A plausible slip: the document null is taken for the empty object.
Unmarshal_NullIsEmpty(file) ==
    CASE file.kind = "object" ->
             [err |-> FALSE,
              value |-> [t \in DOMAIN ObjectOf(file.tables) |->
                            UnmarshalTable(ObjectOf(file.tables)[t])]]
      [] file.kind = "null" -> [err |-> FALSE, value |-> EmptyPayload]
      [] OTHER -> [err |-> TRUE, value |-> NilMap]

\* json.Unmarshal(expectedData, &expected) with expected a map[string]any: an
\* error for what is not JSON and for a document that is no object; the nil
\* map for null.
Unmarshal(file) ==
    CASE file.kind = "object" ->
             [err |-> FALSE,
              value |-> [t \in DOMAIN ObjectOf(file.tables) |->
                            UnmarshalTable(ObjectOf(file.tables)[t])]]
      [] file.kind = "null" -> [err |-> FALSE, value |-> NilMap]
      [] OTHER -> [err |-> TRUE, value |-> NilMap]

(***************************************************************************)
(* The payloads an expected file is written from: the canonical form of    *)
(* the diff, and payloads one step away from it.                           *)
(***************************************************************************)
\* One value changed: the number 1 written as the string "1" (its type), or as
\* the number 2 (its value).
ChangeValue(v, change) ==
    IF v # Num1 THEN v
    ELSE IF change = "type" THEN Str1 ELSE Num2

MapRow(row, change) == [c \in DOMAIN row |-> ChangeValue(row[c], change)]

MapEntries(bucket, entries, change) ==
    [i \in 1..Len(entries) |->
        IF bucket = "updated"
        THEN [f \in DOMAIN entries[i] |-> MapRow(entries[i][f], change)]
        ELSE MapRow(entries[i], change)]

MapPayload(payload, change) ==
    [t \in DOMAIN payload |->
        [b \in DOMAIN payload[t] |-> MapEntries(b, payload[t][b], change)]]

Retyped(payload) == MapPayload(payload, "type")

Revalued(payload) == MapPayload(payload, "value")

\* Every table given the buckets it lacks, as empty lists.
WithEmptyBuckets(payload) ==
    [t \in DOMAIN payload |->
        [b \in {"inserted", "updated", "deleted"} |->
            IF b \in DOMAIN payload[t] THEN payload[t][b] ELSE <<>>]]

\* Every table of the model it lacks added as the empty object.
WithEmptyTables(payload) ==
    [t \in TableNames |-> IF t \in DOMAIN payload THEN payload[t] ELSE <<>>]

\* The table `users` left out.
WithoutUsers(payload) == [t \in DOMAIN payload \ {"users"} |-> payload[t]]

ExpectedPayloads(canonical) ==
    {canonical, EmptyPayload, Retyped(canonical), Revalued(canonical),
     WithEmptyBuckets(canonical), WithEmptyTables(canonical),
     WithoutUsers(canonical)}

\* The expected files of an assert whose diff has the given canonical form.
ExpectedFiles(canonical) ==
    {NoFile, Malformed, ArrayDoc, NullDoc}
        \cup {WriteDoc(p, reversed) :
                 p \in ExpectedPayloads(canonical), reversed \in BOOLEAN}

(***************************************************************************)
(* runAssertCmd and main.                                                  *)
(***************************************************************************)
\* Lines 35-41: the required flags.
FlagsError(opts, expectedFile) ==
    IF opts.From = "" \/ opts.To = "" THEN "both --from and --to are required"
    ELSE IF expectedFile = "" THEN "--expected is required"
    ELSE ""

NoReport ==
    [err |-> "", diffRan |-> FALSE, resultMap |-> EmptyPayload,
     expected |-> NoFile, actual |-> ""]

\* Lines 48-96, after a diff that returned `run`: what runAssertCmd returns.
\* The error of a mismatch carries the bytes of the expected file and the
\* serialization of the canonical form (MarshalIndent: Marshal plus layout).
CompareWithFile(run, file) ==
    LET resultMap == ResultMap(run.Tables)
        base      == [NoReport EXCEPT !.diffRan = TRUE]
    IN  IF file.kind = "none"
        THEN [base EXCEPT !.err = "failed to read expected file"]
        ELSE IF Unmarshal(file).err
        THEN [base EXCEPT !.err = "failed to parse expected file"]
        ELSE IF ~compareJSON(Unmarshal(file).value, resultMap)
        THEN [base EXCEPT !.err = "diff does not match expected changes",
                          !.resultMap = resultMap,
                          !.expected = file,
                          !.actual = Marshal(resultMap)]
        ELSE [base EXCEPT !.resultMap = resultMap]

\* runAssertCmd with the diff returning `run`.
runAssertCmd(opts, expectedFile, run, file) ==
    IF FlagsError(opts, expectedFile) # ""
    THEN [NoReport EXCEPT !.err = FlagsError(opts, expectedFile)]
    ELSE IF run.err # ""
    THEN [NoReport EXCEPT !.err = "failed to run diff", !.diffRan = TRUE]
    ELSE CompareWithFile(run, file)

\* main: log.Fatal, which exits with status 1, on an error of the command.
main(err) == IF err # "" THEN 1 ELSE 0

\* The flags of the model's asserts: complete ones, and one of the three
\* required flags left out.
AssertFlags ==
    [From : {"pre"}, To : {"post"}, Tables : {<<>>, <<"users">>},
     IgnoreColumns : {{}}, OnlyChanged : BOOLEAN, expectedFile : {"expected.json"}]
    \cup [From : {"", "pre"}, To : {"", "post"}, Tables : {<<>>},
          IgnoreColumns : {{}}, OnlyChanged : {FALSE},
          expectedFile : {"", "expected.json"}]

OptionsOf(flags) ==
    [From |-> flags.From, To |-> flags.To, Tables |-> flags.Tables,
     IgnoreColumns |-> flags.IgnoreColumns, OnlyChanged |-> flags.OnlyChanged]

(***************************************************************************)
(* compareRows on the heap.  A Go map is a reference: a row collection is  *)
(* a slice of addresses of row maps, and a function that is handed a row   *)
(* can write to it.  Allocation appends to the heap.                       *)
(***************************************************************************)
RowNoId    == [c \in {"a"} |-> Num1]
RowNoIdStr == [c \in {"a"} |-> Str1]
RowStrId   == [c \in {"a", "id"} |-> IF c = "id" THEN Str1 ELSE Num2]

\* The rows of the heap model.
HeapRows == {RowA, RowA2, RowB, RowNoId, RowNoIdStr, RowStrId}

Deref(h, refs) == [i \in 1..Len(refs) |-> h[refs[i]]]

\* fromMap[key], toMap[key]: the address of the last row with the key.
RefOfKey(h, refs, key) == refs[LastIndex(Deref(h, refs), key)]

\* A plausible slip: the ignored columns are deleted from the row itself.
filterIgnoredColumnsHeap_InPlace(h, addr, ignoreColumns) ==
    [heap |-> [h EXCEPT ![addr] = filterIgnoredColumns(h[addr], ignoreColumns)],
     ref  |-> addr]

\* filterIgnoredColumns: result := make(map[string]any), filled and returned.
filterIgnoredColumnsHeap(h, addr, ignoreColumns) ==
    [heap |-> Append(h, filterIgnoredColumns(h[addr], ignoreColumns)),
     ref  |-> Len(h) + 1]

\* extractPrimaryKey: a new map {"id": id}, or the row itself.  The new map is
\* made before the test, and stays unused when the row has no id.
extractPrimaryKeyHeap(h, addr) ==
    IF "id" \in DOMAIN h[addr]
    THEN [heap |-> Append(h, extractPrimaryKey(h[addr])), ref |-> Len(h) + 1]
    ELSE [heap |-> Append(h, <<>>), ref |-> addr]

\* Lines 165-169: one UpdatedRow, its three maps built in the order written.
UpdatedRowHeap(h, fromAddr, toAddr, ignoreColumns) ==
    LET pk     == extractPrimaryKeyHeap(h, fromAddr)
        before == filterIgnoredColumnsHeap(pk.heap, fromAddr, ignoreColumns)
        after  == filterIgnoredColumnsHeap(before.heap, toAddr, ignoreColumns)
    IN  [heap |-> after.heap,
         row  |-> [PrimaryKey |-> pk.ref, Before |-> before.ref, After |-> after.ref]]

\* Lines 162-173: the third loop over the keys it visits, in its range order.
RECURSIVE UpdatedLoopHeap(_, _, _, _, _, _)
UpdatedLoopHeap(h, fromR, toR, ignoreColumns, keys, updated) ==
    IF keys = <<>> THEN [heap |-> h, Updated |-> updated]
    ELSE LET key == Head(keys)
             fromAddr == RefOfKey(h, fromR, key)
         IN  IF key \in {generateRowKey(h[toR[i]]) : i \in DOMAIN toR}
                /\ ~rowsEqual(h[fromAddr], h[RefOfKey(h, toR, key)], ignoreColumns)
             THEN LET u == UpdatedRowHeap(h, fromAddr, RefOfKey(h, toR, key),
                                          ignoreColumns)
                  IN  UpdatedLoopHeap(u.heap, fromR, toR, ignoreColumns, Tail(keys),
                                      Append(updated, u.row))
             ELSE UpdatedLoopHeap(h, fromR, toR, ignoreColumns, Tail(keys), updated)

\* compareRows on the heap, its three range loops in the given orders:
\* Inserted and Deleted hold the addresses of the input rows.
compareRowsHeap(h, fromR, toR, ignoreColumns, toOrder, fromOrder1, fromOrder2) ==
    LET fromKeys == {generateRowKey(h[fromR[i]]) : i \in DOMAIN fromR}
        toKeys   == {generateRowKey(h[toR[i]]) : i \in DOMAIN toR}
        insKeys  == SelectSeq(toOrder, LAMBDA k : k \notin fromKeys)
        delKeys  == SelectSeq(fromOrder1, LAMBDA k : k \notin toKeys)
        loop     == UpdatedLoopHeap(h, fromR, toR, ignoreColumns, fromOrder2, <<>>)
    IN  [heap |-> loop.heap,
         diff |-> [Inserted |-> [i \in 1..Len(insKeys) |-> RefOfKey(h, toR, insKeys[i])],
                   Deleted  |-> [i \in 1..Len(delKeys) |-> RefOfKey(h, fromR, delKeys[i])],
                   Updated  |-> loop.Updated]]

NoRefResult == [Inserted |-> <<>>, Deleted |-> <<>>, Updated |-> <<>>]

(***************************************************************************)
(* The commands that write the store: snapshot (snapshot.Run, which calls  *)
(* Storage.SaveSnapshot for every table it saves) and rm.                  *)
(***************************************************************************)
\* A float8 column can hold NaN, which lib/pq scans into a float64 NaN.
NumNaN == [kind |-> "number", text |-> "NaN"]
RowNaN == [c \in {"id"} |-> NumNaN]

\* json.MarshalIndent fails on a NaN.
Marshalable(data) ==
    \A i \in DOMAIN data : \A c \in DOMAIN data[i] : data[i][c] # NumNaN

\* Storage.SaveSnapshot with its error: MkdirAll comes first, so the directory
\* of the snapshot stays when the data can not be marshalled.
SaveSnapshotResult(st, label, tableName, data) ==
    IF Marshalable(data)
    THEN [store |-> SaveSnapshotStore(st, label, tableName, data), err |-> FALSE]
    ELSE [store |-> [st EXCEPT ![label].exists = TRUE], err |-> TRUE]

\* Storage.ListSnapshots: the directories under snapshots/.
ListSnapshots(st) == {l \in Labels : st[l].exists}

\* Storage.DeleteSnapshot: an error when the directory does not exist,
\* otherwise RemoveAll.
DeleteSnapshotResult(st, label) ==
    IF ~st[label].exists
    THEN [store |-> st, err |-> TRUE]
    ELSE [store |-> [st EXCEPT ![label] = NoSnapshot], err |-> FALSE]

\* What the database gives snapshot.Run for a table: no column is left after
\* the ignore list ("skip"), a query fails ("fail"), or the rows ("save").
TablePlans ==
    {[step |-> "skip", data |-> <<>>], [step |-> "fail", data |-> <<>>]}
        \cup {[step |-> "save", data |-> d] : d \in {<<>>, <<RowA>>, <<RowNaN>>}}

\* snapshot.Run, lines 61-93: the loop over the tables; it returns at the first
\* error.
RECURSIVE SnapshotLoop(_, _, _, _, _)
SnapshotLoop(st, label, tables, plan, saved) ==
    IF tables = <<>> THEN [store |-> st, saved |-> saved, err |-> FALSE]
    ELSE LET t == Head(tables)
         IN  CASE plan[t].step = "skip" ->
                      SnapshotLoop(st, label, Tail(tables), plan, saved)
               [] plan[t].step = "fail" ->
                      [store |-> st, saved |-> saved, err |-> TRUE]
               [] OTHER ->
                      LET r == SaveSnapshotResult(st, label, t, plan[t].data)
                      IN  IF r.err
                          THEN [store |-> r.store, saved |-> saved, err |-> TRUE]
                          ELSE SnapshotLoop(r.store, label, Tail(tables), plan,
                                            saved \cup {t})

\* The table lists of a snapshot run: --table, or the tables of the database.
SnapshotTables == {<<>>, <<"users">>, <<"orders">>, <<"orders", "users">>}

NoOp == [op |-> "none", label |-> "", saved |-> {}, err |-> FALSE,
         before |-> EmptyStore]

(***************************************************************************)
(* The presentation helpers of package formatter.  A row of a snapshot     *)
(* file holds any JSON value: json.Unmarshal gives nil, bool, float64,     *)
(* string, []any and map[string]any.  `text` is what %v prints.            *)
(***************************************************************************)
\* The most rows one collection holds when its diff is formatted.
MaxShown == 1

NullValue == [kind |-> "null", text |-> "<nil>"]
BoolTrue  == [kind |-> "boolean", text |-> "true"]
Seq1      == [kind |-> "sequence", text |-> "[1]"]
Seq2      == [kind |-> "sequence", text |-> "[2]"]
Map1      == [kind |-> "mapping", text |-> "map[k:1]"]

FormatValues == {NullValue, BoolTrue, Num1, Str1, Seq1, Seq2, Map1}

FormatColumns == {"a", "b", "id"}

\* The rows of the formatted tables: id 1, column a of any kind or missing,
\* column b a number or missing.
FormatRows ==
    {r \in UNION {[cs -> FormatValues \cup {Num2}] :
                      cs \in {{"id"}, {"a", "id"}, {"b", "id"}, {"a", "b", "id"}}} :
        /\ r["id"] = Num1
        /\ "a" \in DOMAIN r => r["a"] \in FormatValues
        /\ "b" \in DOMAIN r => r["b"] \in {Num1, Num2}}

(***************************************************************************)
(* beforeVal != afterVal on two interface values.  Values of different     *)
(* dynamic types are unequal; values of the same comparable type compare   *)
(* by content; values of the same type []any or map[string]any make the    *)
(* comparison panic at run time.                                           *)
(***************************************************************************)
Uncomparable(v) == v.kind \in {"sequence", "mapping"}

ComparePanics(v1, v2) == v1.kind = v2.kind /\ Uncomparable(v1)

NotEqual(v1, v2) == v1.kind # v2.kind \/ v1.text # v2.text

\* parts = append(parts, ...), unless the loop has panicked.
AppendPart(part, rest) ==
    IF rest.panic THEN rest ELSE [rest EXCEPT !.parts = <<part>> \o @]

\* The loop of formatChanges over keySlice.  A part "k: x -> y" is kept as
\* its column and the two %v texts.
RECURSIVE ChangeParts(_, _, _)
ChangeParts(before, after, keySlice) ==
    IF keySlice = <<>> THEN [panic |-> FALSE, parts |-> <<>>]
    ELSE LET k    == Head(keySlice)
             rest == ChangeParts(before, after, Tail(keySlice))
         IN  IF k \notin DOMAIN before
             THEN AppendPart([field |-> k, before |-> "null",
                              after |-> Sprintf_v(after[k])], rest)
             ELSE IF k \notin DOMAIN after
             THEN AppendPart([field |-> k, before |-> Sprintf_v(before[k]),
                              after |-> "null"], rest)
             ELSE IF ComparePanics(before[k], after[k])
             THEN [panic |-> TRUE, parts |-> <<>>]
             ELSE IF NotEqual(before[k], after[k])
             THEN AppendPart([field |-> k, before |-> Sprintf_v(before[k]),
                              after |-> Sprintf_v(after[k])], rest)
             ELSE rest

\* keys: the map formatChanges collects the columns of both rows in.
KeysOfBoth(before, after) == [k \in DOMAIN before \cup DOMAIN after |-> TRUE]

\* formatChanges(before, after, sortKeys); `order` is the order the range
\* over keys takes, which stays when sortKeys is off.
formatChanges(before, after, sortKeys, order) ==
    ChangeParts(before, after,
                IF sortKeys THEN SortedKeys(KeysOfBoth(before, after)) ELSE order)

\* getChangedFields(before, after): the changed fields, sorted.
getChangedFields(before, after) ==
    LET changed == {f \in DOMAIN before :
                        f \notin DOMAIN after \/ NotEqual(before[f], after[f])}
                   \cup {f \in DOMAIN after : f \notin DOMAIN before}
    IN  IF \E f \in DOMAIN before \cap DOMAIN after :
               ComparePanics(before[f], after[f])
        THEN [panic |-> TRUE, fields |-> <<>>]
        ELSE [panic |-> FALSE,
              fields |-> SelectSeq(SortedColumns, LAMBDA f : f \in changed)]

\* What formatChanges can return for each of the Updated rows.
ChangesOf(updated, sortKeys) ==
    LET outs(u) == {formatChanges(u.Before, u.After, sortKeys, o) :
                        o \in RangeOrders(KeysOfBoth(u.Before, u.After))}
    IN  {c \in [DOMAIN updated -> UNION {outs(updated[i]) : i \in DOMAIN updated}] :
            \A i \in DOMAIN updated : c[i] \in outs(updated[i])}

FieldsOf(updated) ==
    [i \in DOMAIN updated |-> getChangedFields(updated[i].Before, updated[i].After)]

NoShown == [sortKeys |-> FALSE, changes |-> <<>>, fields |-> <<>>]

(***************************************************************************)
(* State.                                                                  *)
(***************************************************************************)
VARIABLES
    fromRows,       \* the rows of the table in the `from` snapshot
    toRows,         \* the rows of the table in the `to` snapshot
    ignoreColumns,  \* opts.IgnoreColumns, as the set ignoreColumnsMap holds
    pc,             \* "load", then "diffed" after a diff, "asserted" after an assert
    result,         \* the TableDiff of the last run of the diff
    prevResult,     \* the TableDiff of the run before it, on the same snapshots
    expected,       \* the parsed expected payload of the assert
    verdict,        \* what compareJSON returned in the assert
    store,          \* the snapshot store: label -> snapshot directory
    phase,          \* "store", then "ran" after diff.Run
    runOpts,        \* the options of the run
    outcome,        \* what the run returned
    expectedPath,   \* the --expected flag of the assert
    expectedDoc,    \* the expected file
    report,         \* what runAssertCmd returned
    exit,           \* the exit status of the process
    source,         \* a row as its source wrote it: <<column, value>> in order
    keyed,          \* generateRowKey was called on the row
    rowKey,         \* the key generateRowKey returned
    heap,           \* the row maps in memory: address -> row
    fromRefs,       \* the from collection: the addresses of its rows
    toRefs,         \* the to collection: the addresses of its rows
    heapIgnore,     \* the ignore set of the diff on the heap
    refResult,      \* the TableDiff of that diff: the addresses of its rows
    hpc,            \* "load", then "diffed"
    live,           \* history: the labels saved with success since their last delete
    lastOp,         \* the last command on the store and what it returned
    fmtFrom,        \* the from rows of the table whose diff is formatted
    fmtTo,          \* its to rows
    fmtResult,      \* the TableDiff handed to the formatter
    shown,          \* what the helpers returned for its Updated rows
    fpc             \* "load", then "formatted"

engineVars == <<fromRows, toRows, ignoreColumns, pc, result, prevResult, expected, verdict>>

runVars == <<store, phase, runOpts, outcome>>

assertVars == <<expectedPath, expectedDoc, report, exit>>

keyVars == <<source, keyed, rowKey>>

heapVars == <<heap, fromRefs, toRefs, heapIgnore, refResult, hpc>>

snapVars == <<live, lastOp>>

fmtVars == <<fmtFrom, fmtTo, fmtResult, shown, fpc>>

vars == <<fromRows, toRows, ignoreColumns, pc, result, prevResult, expected, verdict,
          store, phase, runOpts, outcome, expectedPath, expectedDoc, report, exit,
          source, keyed, rowKey,
          heap, fromRefs, toRefs, heapIgnore, refResult, hpc, live, lastOp,
          fmtFrom, fmtTo, fmtResult, shown, fpc>>

Init ==
    /\ fromRows = <<>>
    /\ toRows = <<>>
    /\ ignoreColumns = {}
    /\ pc = "load"
    /\ result = EmptyDiff
    /\ prevResult = EmptyDiff
    /\ expected = EmptyPayload
    /\ verdict = FALSE
    /\ store = EmptyStore
    /\ phase = "store"
    /\ runOpts = NoOptions
    /\ outcome = NoOutcome
    /\ expectedPath = ""
    /\ expectedDoc = NoFile
    /\ report = NoReport
    /\ exit = 0
    /\ source = <<>>
    /\ keyed = FALSE
    /\ rowKey = ""
    /\ heap = <<>>
    /\ fromRefs = <<>>
    /\ toRefs = <<>>
    /\ heapIgnore = {}
    /\ refResult = NoRefResult
    /\ hpc = "load"
    /\ live = {}
    /\ lastOp = NoOp
    /\ fmtFrom = <<>>
    /\ fmtTo = <<>>
    /\ fmtResult = EmptyDiff
    /\ shown = NoShown
    /\ fpc = "load"

\* A row is added to the `from` snapshot of the table.
LoadFromRow ==
    /\ pc = "load"
    /\ Len(fromRows) < MaxRows
    /\ Len(fromRows) + Len(toRows) < MaxLoaded
    /\ \E row \in Rows : fromRows' = Append(fromRows, row)
    /\ UNCHANGED <<toRows, ignoreColumns, pc, result, prevResult, expected, verdict>>
    /\ UNCHANGED runVars
    /\ UNCHANGED assertVars
    /\ UNCHANGED keyVars
    /\ UNCHANGED heapVars
    /\ UNCHANGED snapVars
    /\ UNCHANGED fmtVars

\* A row is added to the `to` snapshot of the table.
LoadToRow ==
    /\ pc = "load"
    /\ Len(toRows) < MaxRows
    /\ Len(fromRows) + Len(toRows) < MaxLoaded
    /\ \E row \in Rows : toRows' = Append(toRows, row)
    /\ UNCHANGED <<fromRows, ignoreColumns, pc, result, prevResult, expected, verdict>>
    /\ UNCHANGED runVars
    /\ UNCHANGED assertVars
    /\ UNCHANGED keyVars
    /\ UNCHANGED heapVars
    /\ UNCHANGED snapVars
    /\ UNCHANGED fmtVars

\* The `to` snapshot is taken of the unchanged table: the rows of `from`.
LoadSameRows ==
    /\ pc = "load"
    /\ toRows = <<>>
    /\ fromRows # <<>>
    /\ toRows' = fromRows
    /\ UNCHANGED <<fromRows, ignoreColumns, pc, result, prevResult, expected, verdict>>
    /\ UNCHANGED runVars
    /\ UNCHANGED assertVars
    /\ UNCHANGED keyVars
    /\ UNCHANGED heapVars
    /\ UNCHANGED snapVars
    /\ UNCHANGED fmtVars

\* The diff of the two snapshots under some ignore set.
Diff ==
    /\ pc = "load"
    /\ \E ignore \in SUBSET Columns :
           /\ ignoreColumns' = ignore
           /\ result' \in Diffs(TableName, fromRows, toRows, ignore)
    /\ pc' = "diffed"
    /\ UNCHANGED <<fromRows, toRows, prevResult, expected, verdict>>
    /\ UNCHANGED runVars
    /\ UNCHANGED assertVars
    /\ UNCHANGED keyVars
    /\ UNCHANGED heapVars
    /\ UNCHANGED snapVars
    /\ UNCHANGED fmtVars

(***************************************************************************)
(* runAssertCmd on the same snapshots and options: it runs the diff again, *)
(* builds the canonical form and compares it with the expected payload,    *)
(* here `{}` or the canonical form of the diff that was run before.        *)
(***************************************************************************)
AssertCmd ==
    /\ pc = "diffed"
    /\ \E e \in {EmptyPayload, ResultMap([t \in {TableName} |-> result])} :
       \E actual \in Diffs(TableName, fromRows, toRows, ignoreColumns) :
           /\ expected' = e
           /\ result' = actual
           /\ verdict' = compareJSON(e, ResultMap([t \in {TableName} |-> actual]))
    /\ prevResult' = result
    /\ pc' = "asserted"
    /\ UNCHANGED <<fromRows, toRows, ignoreColumns>>
    /\ UNCHANGED runVars
    /\ UNCHANGED assertVars
    /\ UNCHANGED keyVars
    /\ UNCHANGED heapVars
    /\ UNCHANGED snapVars
    /\ UNCHANGED fmtVars

Next == LoadFromRow \/ LoadToRow \/ LoadSameRows \/ Diff

Spec == Init /\ [][Next]_vars

NextAssert == Next \/ AssertCmd

SpecAssert == Init /\ [][NextAssert]_vars

(***************************************************************************)
(* The store and diff.Run.                                                 *)
(***************************************************************************)
\* Storage.SaveSnapshot(label, tableName, data, FormatJSON).
SaveSnapshot ==
    /\ phase = "store"
    /\ \E label \in Labels, tableName \in TableNames, data \in TableContents :
           store' = SaveSnapshotStore(store, label, tableName, data)
    /\ UNCHANGED <<phase, runOpts, outcome>>
    /\ UNCHANGED engineVars
    /\ UNCHANGED assertVars
    /\ UNCHANGED keyVars
    /\ UNCHANGED heapVars
    /\ UNCHANGED snapVars
    /\ UNCHANGED fmtVars

\* diff.Run(ctx, opts) on the store.
RunDiff ==
    /\ phase = "store"
    /\ \E opts \in RunOptions :
           /\ runOpts' = opts
           /\ outcome' \in Run(store, opts)
    /\ phase' = "ran"
    /\ UNCHANGED store
    /\ UNCHANGED engineVars
    /\ UNCHANGED assertVars
    /\ UNCHANGED keyVars
    /\ UNCHANGED heapVars
    /\ UNCHANGED snapVars
    /\ UNCHANGED fmtVars

NextRun == SaveSnapshot \/ RunDiff

SpecRun == Init /\ [][NextRun]_vars

(***************************************************************************)
(* diff.Run on snapshot files that were changed by hand after they were    *)
(* saved.                                                                  *)
(***************************************************************************)
\* What a hand can do to a table file: take the read permission away, leave
\* content that is not JSON, append an element that is no object to the array.
Edits == {"unreadable", "invalid", "element"}

\* The files of the store that were changed by hand.
Edited(st) ==
    {<<l, t>> \in Labels \X TableNames :
        /\ t \in DOMAIN st[l].files
        /\ \/ t \in DOMAIN st[l].unloadable
           \/ \E i \in DOMAIN st[l].files[t] : st[l].files[t][i] = Num1}

EditStore(st, label, tableName, edit) ==
    IF edit = "element"
    THEN [st EXCEPT ![label].files[tableName] = Append(@, Num1)]
    ELSE [st EXCEPT ![label].unloadable =
             [t \in DOMAIN st[label].unloadable \cup {tableName} |->
                 IF t = tableName THEN edit ELSE st[label].unloadable[t]]]

\* A table file of a snapshot is changed by hand.
EditFile ==
    /\ phase = "store"
    /\ Cardinality(Edited(store)) < MaxEdits
    /\ \E label \in Labels, tableName \in TableNames, edit \in Edits :
           /\ tableName \in DOMAIN store[label].files
           /\ store' = EditStore(store, label, tableName, edit)
    /\ UNCHANGED <<phase, runOpts, outcome>>
    /\ UNCHANGED engineVars
    /\ UNCHANGED assertVars
    /\ UNCHANGED keyVars
    /\ UNCHANGED heapVars
    /\ UNCHANGED snapVars
    /\ UNCHANGED fmtVars

NextLoad == SaveSnapshot \/ EditFile \/ RunDiff

SpecLoad == Init /\ [][NextLoad]_vars

(***************************************************************************)
(* The snapshot and rm commands.                                           *)
(***************************************************************************)
\* snapdiff snapshot --label L: snapshot.Run.
SnapshotRun ==
    /\ \E label \in Labels, tables \in SnapshotTables, plan \in [TableNames -> TablePlans] :
           LET r == SnapshotLoop(store, label, tables, plan, {})
           IN  /\ store' = r.store
               /\ live' = IF r.saved # {} THEN live \cup {label} ELSE live
               /\ lastOp' = [op |-> "snapshot", label |-> label, saved |-> r.saved,
                             err |-> r.err, before |-> store]
    /\ UNCHANGED <<phase, runOpts, outcome>>
    /\ UNCHANGED engineVars
    /\ UNCHANGED assertVars
    /\ UNCHANGED keyVars
    /\ UNCHANGED heapVars
    /\ UNCHANGED fmtVars

\* snapdiff rm L: ListSnapshotTables, then DeleteSnapshot.
RmCmd ==
    /\ \E label \in Labels :
           LET r == IF ListSnapshotTables(store, label).err
                    THEN [store |-> store, err |-> TRUE]
                    ELSE DeleteSnapshotResult(store, label)
           IN  /\ store' = r.store
               /\ live' = IF r.err THEN live ELSE live \ {label}
               /\ lastOp' = [op |-> "rm", label |-> label, saved |-> {},
                             err |-> r.err, before |-> store]
    /\ UNCHANGED <<phase, runOpts, outcome>>
    /\ UNCHANGED engineVars
    /\ UNCHANGED assertVars
    /\ UNCHANGED keyVars
    /\ UNCHANGED heapVars
    /\ UNCHANGED fmtVars

NextStore == SnapshotRun \/ RmCmd

SpecStore == Init /\ [][NextStore]_vars

\* snapdiff assert: runAssertCmd, then main on what it returned.  diff.Run is
\* called only when the flags are complete.
AssertRun ==
    /\ phase = "store"
    /\ \E flags \in AssertFlags :
       \E run \in IF FlagsError(OptionsOf(flags), flags.expectedFile) # ""
                  THEN {NoOutcome} ELSE Run(store, OptionsOf(flags)) :
       \E file \in ExpectedFiles(ResultMap(run.Tables)) :
           /\ flags.expectedFile = "" => file = NoFile
           /\ runOpts' = OptionsOf(flags)
           /\ expectedPath' = flags.expectedFile
           /\ expectedDoc' = file
           /\ outcome' = run
           /\ report' = runAssertCmd(OptionsOf(flags), flags.expectedFile, run, file)
           /\ exit' = main(runAssertCmd(OptionsOf(flags), flags.expectedFile, run, file).err)
    /\ phase' = "asserted"
    /\ UNCHANGED store
    /\ UNCHANGED engineVars
    /\ UNCHANGED keyVars
    /\ UNCHANGED heapVars
    /\ UNCHANGED snapVars
    /\ UNCHANGED fmtVars

NextAssertRun == SaveSnapshot \/ AssertRun

SpecAssertRun == Init /\ [][NextAssertRun]_vars

(***************************************************************************)
(* generateRowKey on rows of up to three columns, whatever order their     *)
(* source wrote the columns in.                                            *)
(***************************************************************************)
KeyColumns == {"a", "b", "id"}

\* The rows as a source writes them: distinct columns in any order.
SourceRows ==
    {s \in UNION {[1..n -> KeyColumns \X Values] : n \in 0..Cardinality(KeyColumns)} :
        \A i, j \in DOMAIN s : i # j => s[i][1] # s[j][1]}

\* The row is read into a map[string]any and generateRowKey is called on it.
KeyRow ==
    /\ \E s \in SourceRows :
           /\ source' = s
           /\ rowKey' = generateRowKey(UnmarshalRow(s))
    /\ keyed' = TRUE
    /\ UNCHANGED engineVars
    /\ UNCHANGED runVars
    /\ UNCHANGED assertVars
    /\ UNCHANGED heapVars
    /\ UNCHANGED snapVars
    /\ UNCHANGED fmtVars

NextKey == KeyRow

SpecKey == Init /\ [][NextKey]_vars

(***************************************************************************)
(* The diff of two collections of row maps in memory.                      *)
(***************************************************************************)
\* A row is read into a new map and appended to the from collection.
HeapLoadFrom ==
    /\ hpc = "load"
    /\ Len(fromRefs) < MaxRows
    /\ Len(heap) < MaxLoaded
    /\ \E row \in HeapRows :
           /\ heap' = Append(heap, row)
           /\ fromRefs' = Append(fromRefs, Len(heap) + 1)
    /\ UNCHANGED <<toRefs, heapIgnore, refResult, hpc>>
    /\ UNCHANGED engineVars
    /\ UNCHANGED runVars
    /\ UNCHANGED assertVars
    /\ UNCHANGED keyVars
    /\ UNCHANGED snapVars
    /\ UNCHANGED fmtVars

\* A row is read into a new map and appended to the to collection.
HeapLoadTo ==
    /\ hpc = "load"
    /\ Len(toRefs) < MaxRows
    /\ Len(heap) < MaxLoaded
    /\ \E row \in HeapRows :
           /\ heap' = Append(heap, row)
           /\ toRefs' = Append(toRefs, Len(heap) + 1)
    /\ UNCHANGED <<fromRefs, heapIgnore, refResult, hpc>>
    /\ UNCHANGED engineVars
    /\ UNCHANGED runVars
    /\ UNCHANGED assertVars
    /\ UNCHANGED keyVars
    /\ UNCHANGED snapVars
    /\ UNCHANGED fmtVars

\* compareRows(tableName, fromRows, toRows, ignoreColumns) on the heap.
HeapDiff ==
    /\ hpc = "load"
    /\ \E ignore \in SUBSET Columns :
       \E toOrder \in RangeOrders(RowMap(Deref(heap, toRefs))) :
       \E fromOrder1 \in RangeOrders(RowMap(Deref(heap, fromRefs))) :
       \E fromOrder2 \in RangeOrders(RowMap(Deref(heap, fromRefs))) :
           LET r == compareRowsHeap(heap, fromRefs, toRefs, ignore,
                                    toOrder, fromOrder1, fromOrder2)
           IN  /\ heapIgnore' = ignore
               /\ heap' = r.heap
               /\ refResult' = r.diff
    /\ hpc' = "diffed"
    /\ UNCHANGED <<fromRefs, toRefs>>
    /\ UNCHANGED engineVars
    /\ UNCHANGED runVars
    /\ UNCHANGED assertVars
    /\ UNCHANGED keyVars
    /\ UNCHANGED snapVars
    /\ UNCHANGED fmtVars

NextHeap == HeapLoadFrom \/ HeapLoadTo \/ HeapDiff

SpecHeap == Init /\ [][NextHeap]_vars

(***************************************************************************)
(* The formatter on the diff of one table.                                 *)
(***************************************************************************)
FormatLoadFrom ==
    /\ fpc = "load"
    /\ Len(fmtFrom) < MaxShown
    /\ \E row \in FormatRows : fmtFrom' = Append(fmtFrom, row)
    /\ UNCHANGED <<fmtTo, fmtResult, shown, fpc>>
    /\ UNCHANGED engineVars
    /\ UNCHANGED runVars
    /\ UNCHANGED assertVars
    /\ UNCHANGED keyVars
    /\ UNCHANGED heapVars
    /\ UNCHANGED snapVars

FormatLoadTo ==
    /\ fpc = "load"
    /\ Len(fmtTo) < MaxShown
    /\ \E row \in FormatRows : fmtTo' = Append(fmtTo, row)
    /\ UNCHANGED <<fmtFrom, fmtResult, shown, fpc>>
    /\ UNCHANGED engineVars
    /\ UNCHANGED runVars
    /\ UNCHANGED assertVars
    /\ UNCHANGED keyVars
    /\ UNCHANGED heapVars
    /\ UNCHANGED snapVars

\* compareRows, then formatChanges (formatCLI) and getChangedFields
\* (formatMarkdown) on every Updated row of the TableDiff.
FormatUpdated ==
    /\ fpc = "load"
    /\ \E ignore \in SUBSET FormatColumns, sortKeys \in BOOLEAN :
       \E d \in Diffs(TableName, fmtFrom, fmtTo, ignore) :
       \E changes \in ChangesOf(d.Updated, sortKeys) :
           /\ fmtResult' = d
           /\ shown' = [sortKeys |-> sortKeys, changes |-> changes,
                        fields |-> FieldsOf(d.Updated)]
    /\ fpc' = "formatted"
    /\ UNCHANGED <<fmtFrom, fmtTo>>
    /\ UNCHANGED engineVars
    /\ UNCHANGED runVars
    /\ UNCHANGED assertVars
    /\ UNCHANGED keyVars
    /\ UNCHANGED heapVars
    /\ UNCHANGED snapVars

NextFormat == FormatLoadFrom \/ FormatLoadTo \/ FormatUpdated

SpecFormat == Init /\ [][NextFormat]_vars

(***************************************************************************)
(* Vocabulary of the properties.                                           *)
(***************************************************************************)
\* The identity keys of the rows of a collection.
KeysOf(rows) == {generateRowKey(rows[i]) : i \in DOMAIN rows}

\* The identity key an UpdatedRow was emitted for: that of its from-row, which
\* its PrimaryKey (the id projection, or the whole from-row) still carries.
UpdatedKey(u) == generateRowKey(u.PrimaryKey)

UpdatedKeysOf(updated) == {UpdatedKey(updated[i]) : i \in DOMAIN updated}

InSeq(x, seq) == \E i \in DOMAIN seq : seq[i] = x

\* rows[i] is the last row of the collection with its identity key.
IsLastOfKey(rows, i) ==
    \A j \in DOMAIN rows : j > i => generateRowKey(rows[j]) # generateRowKey(rows[i])

\* Two rows of one collection share an identity key and differ.
HasDuplicateKey(rows) ==
    \E i, j \in DOMAIN rows :
        i < j /\ generateRowKey(rows[i]) = generateRowKey(rows[j]) /\ rows[i] # rows[j]

\* The columns outside the ignore set in which two rows differ: present in one
\* row only, or present in both with different values.
ChangedColumns(row1, row2, ignore) ==
    {c \in (DOMAIN row1 \cup DOMAIN row2) \ ignore :
        \/ c \notin DOMAIN row1
        \/ c \notin DOMAIN row2
        \/ row1[c] # row2[c]}

InNoBucket(key, diff) ==
    /\ key \notin KeysOf(diff.Inserted)
    /\ key \notin KeysOf(diff.Deleted)
    /\ key \notin UpdatedKeysOf(diff.Updated)

(***************************************************************************)
(* C1, as stated: every row of `to` whose identity key is the key of no    *)
(* row of `from` appears in Inserted and in neither Deleted nor Updated,   *)
(* also when several rows of `to` share a key.                             *)
(***************************************************************************)
C1_EveryNewRowInserted ==
    pc = "diffed" =>
        \A i \in DOMAIN toRows :
            generateRowKey(toRows[i]) \notin KeysOf(fromRows) =>
                /\ InSeq(toRows[i], result.Inserted)
                /\ generateRowKey(toRows[i]) \notin KeysOf(result.Deleted)
                /\ generateRowKey(toRows[i]) \notin UpdatedKeysOf(result.Updated)

(***************************************************************************)
(* C1, amended: every row of `to` that is the last row of `to` with its    *)
(* identity key, and whose key is the key of no row of `from`, appears in  *)
(* Inserted, and its key appears in neither Deleted nor Updated.           *)
(***************************************************************************)
C1_LastNewRowInserted ==
    pc = "diffed" =>
        \A i \in DOMAIN toRows :
            (IsLastOfKey(toRows, i)
             /\ generateRowKey(toRows[i]) \notin KeysOf(fromRows)) =>
                /\ InSeq(toRows[i], result.Inserted)
                /\ generateRowKey(toRows[i]) \notin KeysOf(result.Deleted)
                /\ generateRowKey(toRows[i]) \notin UpdatedKeysOf(result.Updated)

\* A diff in which two different rows of `to` share a key that `from` lacks,
\* and the later of them was inserted.
C1_Witness ==
    /\ pc = "diffed"
    /\ HasDuplicateKey(toRows)
    /\ fromRows # <<>>
    /\ \E i \in DOMAIN toRows :
           /\ ~IsLastOfKey(toRows, i)
           /\ generateRowKey(toRows[i]) \notin KeysOf(fromRows)
           /\ ~InSeq(toRows[i], result.Inserted)
    /\ Len(result.Inserted) = 1

(***************************************************************************)
(* C2, as stated: every row of `from` whose identity key is the key of no  *)
(* row of `to` appears in Deleted and in neither Inserted nor Updated,     *)
(* also when several rows of `from` share a key.                           *)
(***************************************************************************)
C2_EveryGoneRowDeleted ==
    pc = "diffed" =>
        \A i \in DOMAIN fromRows :
            generateRowKey(fromRows[i]) \notin KeysOf(toRows) =>
                /\ InSeq(fromRows[i], result.Deleted)
                /\ generateRowKey(fromRows[i]) \notin KeysOf(result.Inserted)
                /\ generateRowKey(fromRows[i]) \notin UpdatedKeysOf(result.Updated)

(***************************************************************************)
(* C2, amended: every row of `from` that is the last row of `from` with    *)
(* its identity key, and whose key is the key of no row of `to`, appears   *)
(* in Deleted, and its key appears in neither Inserted nor Updated.        *)
(***************************************************************************)
C2_LastGoneRowDeleted ==
    pc = "diffed" =>
        \A i \in DOMAIN fromRows :
            (IsLastOfKey(fromRows, i)
             /\ generateRowKey(fromRows[i]) \notin KeysOf(toRows)) =>
                /\ InSeq(fromRows[i], result.Deleted)
                /\ generateRowKey(fromRows[i]) \notin KeysOf(result.Inserted)
                /\ generateRowKey(fromRows[i]) \notin UpdatedKeysOf(result.Updated)

\* A diff in which two different rows of `from` share a key that `to` lacks,
\* and the later of them was deleted.
C2_Witness ==
    /\ pc = "diffed"
    /\ HasDuplicateKey(fromRows)
    /\ toRows # <<>>
    /\ \E i \in DOMAIN fromRows :
           /\ ~IsLastOfKey(fromRows, i)
           /\ generateRowKey(fromRows[i]) \notin KeysOf(toRows)
           /\ ~InSeq(fromRows[i], result.Deleted)
    /\ Len(result.Deleted) = 1

(***************************************************************************)
(* C3: for every identity key present in both collections, if the matched  *)
(* rows are equal under rowsEqual with the ignore set, no UpdatedRow is    *)
(* emitted for the key; if they are unequal, exactly one is, and neither   *)
(* its Before nor its After has a column of the ignore set.                *)
(***************************************************************************)
C3_OneUpdatedRowPerUnequalPair ==
    pc = "diffed" =>
        LET fromMap == RowMap(fromRows)
            toMap   == RowMap(toRows)
        IN  \A key \in DOMAIN fromMap \cap DOMAIN toMap :
                LET emitted == {i \in DOMAIN result.Updated :
                                   UpdatedKey(result.Updated[i]) = key}
                IN  IF rowsEqual(fromMap[key], toMap[key], ignoreColumns)
                    THEN emitted = {}
                    ELSE /\ Cardinality(emitted) = 1
                         /\ \A i \in emitted :
                                /\ DOMAIN result.Updated[i].Before \cap ignoreColumns = {}
                                /\ DOMAIN result.Updated[i].After \cap ignoreColumns = {}

\* A diff that emitted an UpdatedRow for a pair of rows that carry an ignored
\* column.
C3_Witness ==
    /\ pc = "diffed"
    /\ Len(result.Updated) = 1
    /\ \E key \in DOMAIN RowMap(fromRows) \cap DOMAIN RowMap(toRows) :
           /\ DOMAIN RowMap(fromRows)[key] \cap ignoreColumns # {}
           /\ DOMAIN RowMap(toRows)[key] \cap ignoreColumns # {}
           /\ ~rowsEqual(RowMap(fromRows)[key], RowMap(toRows)[key], ignoreColumns)

(***************************************************************************)
(* C4: in the TableDiff compareRows returns, an identity key occurs in at  *)
(* most one of Inserted, Deleted and Updated, and at most once there, also *)
(* when rows of a collection share a key.                                  *)
(***************************************************************************)
C4_KeyInAtMostOneBucketOnce ==
    pc = "diffed" =>
        LET keys == [i \in DOMAIN result.Inserted |-> generateRowKey(result.Inserted[i])]
                    \o [i \in DOMAIN result.Deleted |-> generateRowKey(result.Deleted[i])]
                    \o [i \in DOMAIN result.Updated |-> UpdatedKey(result.Updated[i])]
        IN  \A i, j \in DOMAIN keys : keys[i] = keys[j] => i = j

\* A diff of collections with a shared key on one side, which filled two
\* buckets.
C4_Witness ==
    /\ pc = "diffed"
    /\ HasDuplicateKey(toRows) \/ HasDuplicateKey(fromRows)
    /\ Len(result.Inserted) + Len(result.Deleted) + Len(result.Updated) = 2

(***************************************************************************)
(* C5: every UpdatedRow has Before and After that differ in a column       *)
(* outside the ignore set, and no UpdatedRow is emitted for a matched pair *)
(* whose columns outside the ignore set are all equal.                     *)
(***************************************************************************)
C5_UpdatedRowsDiffer ==
    pc = "diffed" =>
        /\ \A i \in DOMAIN result.Updated :
               ChangedColumns(result.Updated[i].Before, result.Updated[i].After,
                              ignoreColumns) # {}
        /\ \A key \in DOMAIN RowMap(fromRows) \cap DOMAIN RowMap(toRows) :
               ChangedColumns(RowMap(fromRows)[key], RowMap(toRows)[key],
                              ignoreColumns) = {}
                   => key \notin UpdatedKeysOf(result.Updated)

\* A diff that emitted an UpdatedRow for a pair that differs in an ignored
\* column as well as in a retained one.
C5_Witness ==
    /\ pc = "diffed"
    /\ Len(result.Updated) = 1
    /\ \E key \in DOMAIN RowMap(fromRows) \cap DOMAIN RowMap(toRows) :
           /\ ChangedColumns(RowMap(fromRows)[key], RowMap(toRows)[key], {})
                  \cap ignoreColumns # {}
           /\ ChangedColumns(RowMap(fromRows)[key], RowMap(toRows)[key],
                             ignoreColumns) # {}

(***************************************************************************)
(* C6: the diff of a row collection with itself under the empty ignore set *)
(* has Inserted, Updated and Deleted empty, with or without id columns and *)
(* with or without rows that share an identity key.                        *)
(***************************************************************************)
C6_SelfDiffEmpty ==
    (pc = "diffed" /\ toRows = fromRows /\ ignoreColumns = {}) =>
        /\ result.Inserted = <<>>
        /\ result.Updated = <<>>
        /\ result.Deleted = <<>>

\* A self-diff of a collection in which two different rows share a key and a
\* row has no id column.
C6_Witness ==
    /\ pc = "diffed"
    /\ toRows = fromRows
    /\ ignoreColumns = {}
    /\ HasDuplicateKey(fromRows)
    /\ \E i \in DOMAIN fromRows : "id" \notin DOMAIN fromRows[i]
    /\ result.Inserted = <<>> /\ result.Updated = <<>> /\ result.Deleted = <<>>

(***************************************************************************)
(* C7: when the two rows matched by an identity key differ only in columns *)
(* of the ignore set (another value there, or the column on one side       *)
(* only), rowsEqual is true of them and the key is in no bucket.           *)
(***************************************************************************)
C7_IgnoredOnlyDifferenceIsNoChange ==
    pc = "diffed" =>
        \A key \in DOMAIN RowMap(fromRows) \cap DOMAIN RowMap(toRows) :
            LET row1 == RowMap(fromRows)[key]
                row2 == RowMap(toRows)[key]
            IN  (row1 # row2 /\ ChangedColumns(row1, row2, ignoreColumns) = {}) =>
                    /\ rowsEqual(row1, row2, ignoreColumns)
                    /\ InNoBucket(key, result)

\* A diff of a matched pair in which an ignored column is on one side only and
\* nothing else differs.
C7_Witness ==
    /\ pc = "diffed"
    /\ \E key \in DOMAIN RowMap(fromRows) \cap DOMAIN RowMap(toRows) :
           LET row1 == RowMap(fromRows)[key]
               row2 == RowMap(toRows)[key]
           IN  /\ DOMAIN row2 \ DOMAIN row1 # {}
               /\ ChangedColumns(row1, row2, ignoreColumns) = {}
               /\ InNoBucket(key, result)

(***************************************************************************)
(* C8, as stated: when no row of either collection has an id column,       *)
(* compareRows emits no UpdatedRow.                                        *)
(***************************************************************************)
C8_NoUpdateWithoutId ==
    (/\ pc = "diffed"
     /\ \A i \in DOMAIN fromRows : "id" \notin DOMAIN fromRows[i]
     /\ \A i \in DOMAIN toRows : "id" \notin DOMAIN toRows[i])
        => result.Updated = <<>>

(***************************************************************************)
(* C9, as stated: two runs on the same snapshots and options return the    *)
(* same TableDiff, with the same sequence of rows in every bucket, and the *)
(* assert comparison returns the same verdict for both.                    *)
(***************************************************************************)
C9_SameResultAndVerdict ==
    pc = "asserted" =>
        /\ result = prevResult
        /\ verdict = compareJSON(expected, ResultMap([t \in {TableName} |-> prevResult]))

(***************************************************************************)
(* C10, as stated: Before and After of an UpdatedRow hold only the columns *)
(* whose values changed between the from-row and the to-row.               *)
(***************************************************************************)
C10_MinimalDelta ==
    pc = "diffed" =>
        \A i \in DOMAIN result.Updated :
            LET u == result.Updated[i]
            IN  /\ DOMAIN u.Before \subseteq ChangedColumns(u.Before, u.After, {})
                /\ DOMAIN u.After \subseteq ChangedColumns(u.Before, u.After, {})

\* A row without the columns of the ignore set.
Without(row, ignore) == [c \in DOMAIN row \ ignore |-> row[c]]

\* The last row of a collection with the given identity key.
LastRowOfKey(rows, key) ==
    rows[CHOOSE i \in DOMAIN rows :
             generateRowKey(rows[i]) = key /\ IsLastOfKey(rows, i)]

C12_DumpsAreWholeRows ==
    pc = "diffed" =>
        LET fromMap == RowMap(fromRows)
            toMap   == RowMap(toRows)
        IN  /\ {result.Inserted[i] : i \in DOMAIN result.Inserted}
                   = {toMap[k] : k \in DOMAIN toMap \ DOMAIN fromMap}
            /\ {result.Deleted[i] : i \in DOMAIN result.Deleted}
                   = {fromMap[k] : k \in DOMAIN fromMap \ DOMAIN toMap}
            /\ Len(result.Inserted) = Cardinality(DOMAIN toMap \ DOMAIN fromMap)
            /\ Len(result.Deleted) = Cardinality(DOMAIN fromMap \ DOMAIN toMap)

\* A diff under a non-empty ignore set that inserted a row and deleted a row
\* which both carry an ignored column.
C12_Witness ==
    /\ pc = "diffed"
    /\ Len(result.Inserted) = 1
    /\ Len(result.Deleted) = 1
    /\ DOMAIN result.Inserted[1] \cap ignoreColumns # {}
    /\ DOMAIN result.Deleted[1] \cap ignoreColumns # {}

(***************************************************************************)
(* C20: when several rows of one collection have the same identity key,    *)
(* compareRows keeps the last of them: the key is classified by that row,  *)
(* the reported row, Before and After are made from it, and no bucket      *)
(* holds another entry for the key.                                        *)
(***************************************************************************)
C20_LastWriteWins ==
    pc = "diffed" =>
        /\ \A i \in DOMAIN result.Inserted :
               result.Inserted[i]
                   = LastRowOfKey(toRows, generateRowKey(result.Inserted[i]))
        /\ \A i \in DOMAIN result.Deleted :
               result.Deleted[i]
                   = LastRowOfKey(fromRows, generateRowKey(result.Deleted[i]))
        /\ \A i \in DOMAIN result.Updated :
               LET key == UpdatedKey(result.Updated[i])
               IN  /\ result.Updated[i].Before
                          = Without(LastRowOfKey(fromRows, key), ignoreColumns)
                   /\ result.Updated[i].After
                          = Without(LastRowOfKey(toRows, key), ignoreColumns)
        /\ \A key \in KeysOf(fromRows) \cap KeysOf(toRows) :
               key \in UpdatedKeysOf(result.Updated)
                   <=> ~rowsEqual(LastRowOfKey(fromRows, key),
                                  LastRowOfKey(toRows, key), ignoreColumns)
        /\ Len(result.Inserted) = Cardinality(KeysOf(toRows) \ KeysOf(fromRows))
        /\ Len(result.Deleted) = Cardinality(KeysOf(fromRows) \ KeysOf(toRows))
        /\ Len(result.Updated) <= Cardinality(KeysOf(fromRows) \cap KeysOf(toRows))

\* A diff of a `from` with two different rows of one key against a `to` row of
\* that key which equals the earlier one: the pair is reported as updated, with
\* the later row as Before.
C20_Witness ==
    /\ pc = "diffed"
    /\ Len(fromRows) = 2
    /\ Len(toRows) = 1
    /\ HasDuplicateKey(fromRows)
    /\ toRows[1] = fromRows[1]
    /\ ignoreColumns = {}
    /\ Len(result.Updated) = 1
    /\ result.Updated[1].Before = fromRows[2]


(***************************************************************************)
(* Vocabulary of the claims about diff.Run.                                *)
(***************************************************************************)
\* The snapshot of the label holds a file of the table.
HasFile(label, t) == store[label].exists /\ t \in DOMAIN store[label].files

\* The table is named in the --table list of the run.
Named(t) == \E i \in DOMAIN runOpts.Tables : runOpts.Tables[i] = t

\* The tables the run diffs.
Diffed ==
    LET tables == ResolveTables(store, runOpts).tables
    IN  {tables[i] : i \in DOMAIN tables}

HasEntry(d) == Len(d.Inserted) + Len(d.Updated) + Len(d.Deleted) > 0

\* The rows of a collection as the diff sees them: one row per identity key.
KeyedRows(rows) == {LastRowOfKey(rows, k) : k \in KeysOf(rows)}

RowsIn(seq) == {seq[i] : i \in DOMAIN seq}

\* C13: with onlyChanged the result of a successful Run holds exactly the
\* diffed tables whose TableDiff has an entry in Inserted, Updated or Deleted;
\* without onlyChanged it holds every diffed table.
C13_OnlyChangedOmitsExactlyEmpty ==
    (phase = "ran" /\ outcome.err = "") =>
        /\ DOMAIN outcome.Tables \subseteq Diffed
        /\ \A t \in Diffed :
               IF runOpts.OnlyChanged
               THEN /\ t \in DOMAIN outcome.Tables => HasEntry(outcome.Tables[t])
                    /\ t \notin DOMAIN outcome.Tables =>
                           \A d \in TableDiffs(store, runOpts, t) : ~HasEntry(d)
               ELSE t \in DOMAIN outcome.Tables

\* An onlyChanged run over two tables: `users` is the same on both sides and is
\* omitted, `orders` has an updated row only and is kept.
C13_Witness ==
    /\ phase = "ran"
    /\ outcome.err = ""
    /\ runOpts.OnlyChanged
    /\ Diffed = {"orders", "users"}
    /\ DOMAIN outcome.Tables = {"orders"}
    /\ Len(outcome.Tables["orders"].Updated) = 1
    /\ Len(outcome.Tables["orders"].Inserted) = 0
    /\ Len(outcome.Tables["orders"].Deleted) = 0

\* C14: a diffed table whose data is in only one of the two snapshots makes
\* Run return no error; all its rows (one per identity key) are in Inserted
\* when it is only in `to`, in Deleted when it is only in `from`, and the other
\* buckets are empty; with an explicit filter and with an empty one.
C14_OneSidedTableIsNoError ==
    phase = "ran" =>
        \A t \in TableNames :
            (runOpts.Tables = <<>> \/ Named(t)) =>
                /\ (HasFile(runOpts.To, t) /\ ~HasFile(runOpts.From, t)) =>
                       /\ outcome.err = ""
                       /\ IF t \in DOMAIN outcome.Tables
                          THEN /\ RowsIn(outcome.Tables[t].Inserted)
                                      = KeyedRows(store[runOpts.To].files[t])
                               /\ outcome.Tables[t].Updated = <<>>
                               /\ outcome.Tables[t].Deleted = <<>>
                          ELSE runOpts.OnlyChanged /\ store[runOpts.To].files[t] = <<>>
                /\ (HasFile(runOpts.From, t) /\ ~HasFile(runOpts.To, t)) =>
                       /\ outcome.err = ""
                       /\ IF t \in DOMAIN outcome.Tables
                          THEN /\ RowsIn(outcome.Tables[t].Deleted)
                                      = KeyedRows(store[runOpts.From].files[t])
                               /\ outcome.Tables[t].Updated = <<>>
                               /\ outcome.Tables[t].Inserted = <<>>
                          ELSE runOpts.OnlyChanged /\ store[runOpts.From].files[t] = <<>>

Buckets == {"inserted", "updated", "deleted"}

BucketOf(tableDiff, b) ==
    CASE b = "inserted" -> tableDiff.Inserted
      [] b = "updated"  -> tableDiff.Updated
      [] b = "deleted"  -> tableDiff.Deleted

\* The rows a snapshot holds for a table, none when it has no file of it.
RowsOf(label, t) == IF HasFile(label, t) THEN store[label].files[t] ELSE <<>>

FlagsComplete == runOpts.From # "" /\ runOpts.To # "" /\ expectedPath # ""

\* The assert got as far as comparing the two sides.
Compared ==
    /\ phase = "asserted"
    /\ FlagsComplete
    /\ outcome.err = ""
    /\ expectedDoc.kind \in {"object", "null"}

MalformedPayload == expectedDoc.kind \in {"malformed", "array"}

\* C16: the canonical form assert builds has a bucket key exactly for the
\* non-empty buckets of a table, and every updated entry has the fields
\* primary_key, before and after of its UpdatedRow and no other; when every
\* diffed table has the same rows in both snapshots every bucket is empty, and
\* the assert against the expected payload {} succeeds.
C16_CanonicalForm ==
    Compared =>
        /\ DOMAIN report.resultMap \subseteq DOMAIN outcome.Tables
        /\ \A t \in DOMAIN outcome.Tables : \A b \in Buckets :
               (t \in DOMAIN report.resultMap /\ b \in DOMAIN report.resultMap[t])
                   <=> BucketOf(outcome.Tables[t], b) # <<>>
        /\ \A t \in DOMAIN report.resultMap :
               /\ DOMAIN report.resultMap[t] \subseteq Buckets
               /\ "updated" \in DOMAIN report.resultMap[t] =>
                      \A i \in DOMAIN report.resultMap[t]["updated"] :
                          LET entry == report.resultMap[t]["updated"][i]
                              u     == outcome.Tables[t].Updated[i]
                          IN  /\ DOMAIN entry = {"primary_key", "before", "after"}
                              /\ entry["primary_key"] = u.PrimaryKey
                              /\ entry["before"] = u.Before
                              /\ entry["after"] = u.After
        /\ (\A t \in Diffed : RowsOf(runOpts.From, t) = RowsOf(runOpts.To, t)) =>
               /\ \A t \in DOMAIN outcome.Tables : \A b \in Buckets :
                      BucketOf(outcome.Tables[t], b) = <<>>
               /\ expectedDoc = WriteDoc(EmptyPayload, FALSE) => report.err = ""

\* `users` has the same two rows in both snapshots, the diff holds `users`
\* with three empty buckets, and the assert against {} succeeded.
C16_Witness ==
    /\ Compared
    /\ HasFile("pre", "users") /\ HasFile("post", "users")
    /\ Len(store["pre"].files["users"]) = 2
    /\ \A t \in Diffed : RowsOf("pre", t) = RowsOf("post", t)
    /\ "users" \in DOMAIN outcome.Tables
    /\ expectedDoc = WriteDoc(EmptyPayload, FALSE)
    /\ report.err = ""
    /\ exit = 0

\* C17 as stated: success only for an expected file that parses as an object
\* and serializes as the actual diff does; with the three flags given a
\* malformed expected payload always ends in the parse error.
C17_MalformedAlwaysParseError ==
    phase = "asserted" =>
        /\ report.err = "" =>
               /\ expectedDoc.kind = "object"
               /\ Marshal(Unmarshal(expectedDoc).value)
                      = Marshal(ResultMap(outcome.Tables))
        /\ (FlagsComplete /\ MalformedPayload) =>
               report.err = "failed to parse expected file"

\* C17 amended: success only for an expected file that parses as an object and
\* serializes as the actual diff does; a malformed payload never ends in
\* success, it ends in the parse error when the flags are given and diff.Run
\* succeeded and in the error of diff.Run when that failed; a mismatch ends in
\* an error with the expected file and the actual canonical form; every error
\* is a non-zero exit; a missing flag is rejected before the diff runs.
C17_SuccessOnlyOnMatch ==
    phase = "asserted" =>
        /\ report.err = "" =>
               /\ FlagsComplete
               /\ outcome.err = ""
               /\ expectedDoc.kind = "object"
               /\ Marshal(Unmarshal(expectedDoc).value)
                      = Marshal(ResultMap(outcome.Tables))
        /\ MalformedPayload =>
               /\ report.err # ""
               /\ (FlagsComplete /\ outcome.err = "") =>
                      report.err = "failed to parse expected file"
               /\ (FlagsComplete /\ outcome.err # "") =>
                      report.err = "failed to run diff"
        /\ (Compared /\ Unmarshal(expectedDoc).value # ResultMap(outcome.Tables)) =>
               /\ report.err = "diff does not match expected changes"
               /\ report.expected = expectedDoc
               /\ report.actual = Marshal(ResultMap(outcome.Tables))
        /\ report.err # "" <=> exit # 0
        /\ ~FlagsComplete =>
               /\ ~report.diffRan
               /\ report.err \in {"both --from and --to are required",
                                  "--expected is required"}

\* The flags are given, diff.Run returned a diff of `users`, the expected file
\* is not JSON: the parse error and exit status 1.
C17_Witness ==
    /\ phase = "asserted"
    /\ FlagsComplete
    /\ outcome.err = ""
    /\ "users" \in DOMAIN outcome.Tables
    /\ expectedDoc = Malformed
    /\ report.err = "failed to parse expected file"
    /\ exit = 1

\* C18: the comparison of assert succeeds exactly when the expected payload
\* and the canonical form of the diff are the same structure: the order in
\* which the expected file writes the fields of its objects does not matter,
\* and a different value, a different type of a value, a bucket or a table
\* present on one side only makes it fail.
C18_ComparisonIsStructural ==
    Compared =>
        /\ report.err = "" <=>
               Unmarshal(expectedDoc).value = ResultMap(outcome.Tables)
        /\ \A reversed \in BOOLEAN :
               expectedDoc = WriteDoc(ResultMap(outcome.Tables), reversed) =>
                   report.err = ""
        /\ \A p \in {Retyped(ResultMap(outcome.Tables)),
                     Revalued(ResultMap(outcome.Tables)),
                     WithEmptyBuckets(ResultMap(outcome.Tables)),
                     WithEmptyTables(ResultMap(outcome.Tables)),
                     WithoutUsers(ResultMap(outcome.Tables))} :
               (p # ResultMap(outcome.Tables)
                    /\ expectedDoc \in {WriteDoc(p, FALSE), WriteDoc(p, TRUE)}) =>
                   report.err = "diff does not match expected changes"

\* The expected file writes the canonical form of a diff with an updated row,
\* every object with its fields in descending order, and the assert succeeded.
C18_Witness ==
    /\ Compared
    /\ "users" \in DOMAIN outcome.Tables
    /\ Len(outcome.Tables["users"].Updated) = 1
    /\ expectedDoc = WriteDoc(ResultMap(outcome.Tables), TRUE)
    /\ expectedDoc # WriteDoc(ResultMap(outcome.Tables), FALSE)
    /\ report.err = ""


\* The part of a key that one column of a row without id contributes.
KeyPart(row, c) ==
    IF c \in DOMAIN row THEN c \o ":" \o row[c].text \o ";" ELSE ""

\* C19: the key of a row with an id column is the rendering of the id value
\* alone; the key of a row without id is `name:value;` over its columns in
\* lexicographic order (a before b); rows of the same columns and values get
\* the same key whatever order the source wrote the columns in; the key of
\* the empty row is the empty string.
C19_KeyFormat ==
    keyed =>
        LET row == UnmarshalRow(source)
        IN  /\ "id" \in DOMAIN row => rowKey = row["id"].text
            /\ "id" \notin DOMAIN row => rowKey = KeyPart(row, "a") \o KeyPart(row, "b")
            /\ source = <<>> => rowKey = ""
            /\ \A other \in SourceRows :
                   UnmarshalRow(other) = row =>
                       generateRowKey(UnmarshalRow(other)) = rowKey

\* A row without id whose source wrote b before a got the key a:1;b:2;.
C19_Witness ==
    /\ keyed
    /\ source = <<<<"b", Num2>>, <<"a", Num1>>>>
    /\ rowKey = "a:1;b:2;"


\* C21: a diff leaves its inputs as they were: the two collections hold the
\* same row maps in the same order, every map that existed before the call has
\* the columns and values it had, and Before and After of every UpdatedRow are
\* maps made by the call that hold the input row minus the ignored columns.
C21_InputsUnchanged ==
    [][(hpc = "load" /\ hpc' = "diffed") =>
          /\ fromRefs' = fromRefs
          /\ toRefs' = toRefs
          /\ \A a \in DOMAIN heap : heap'[a] = heap[a]
          /\ \A i \in DOMAIN refResult'.Updated :
                 LET u == refResult'.Updated[i]
                 IN  /\ u.Before \notin DOMAIN heap
                     /\ u.After \notin DOMAIN heap
                     /\ u.Before # u.After
                     /\ \E j \in DOMAIN fromRefs :
                            heap'[u.Before] = Without(heap[fromRefs[j]], heapIgnore')
                     /\ \E j \in DOMAIN toRefs :
                            heap'[u.After] = Without(heap[toRefs[j]], heapIgnore')
      ]_vars

\* A diff that ignores column a reported an update of a row that has column a:
\* Before lacks the column, the input row still has it.
C21_Witness ==
    /\ hpc = "diffed"
    /\ heapIgnore = {"a"}
    /\ Len(fromRefs) = 1
    /\ Len(refResult.Updated) = 1
    /\ heap[fromRefs[1]] = RowA2
    /\ DOMAIN heap[refResult.Updated[1].Before] = {"id"}
    /\ refResult.Updated[1].Before # fromRefs[1]


\* The UpdatedRow of a TableDiff for an identity key, as the pair <<Before, After>>.
BeforeAfterOf(updated, key) ==
    {<<updated[i].Before, updated[i].After>> :
        i \in {j \in DOMAIN updated : UpdatedKey(updated[j]) = key}}

\* C22: the diff of the swapped inputs is the mirror image: its Deleted holds
\* the rows of Inserted and its Inserted the rows of Deleted, it reports the
\* same identity keys as Updated, and Before and After of each key change places.
C22_SwapMirrors ==
    pc = "diffed" =>
        \A m \in Diffs(TableName, toRows, fromRows, ignoreColumns) :
            /\ RowsIn(result.Inserted) = RowsIn(m.Deleted)
            /\ RowsIn(result.Deleted) = RowsIn(m.Inserted)
            /\ UpdatedKeysOf(result.Updated) = UpdatedKeysOf(m.Updated)
            /\ \A key \in UpdatedKeysOf(result.Updated) :
                   BeforeAfterOf(m.Updated, key)
                       = {<<ba[2], ba[1]>> : ba \in BeforeAfterOf(result.Updated, key)}

\* A diff with one updated row, whose to-row has a column more, and one
\* deleted row.
C22_Witness ==
    /\ pc = "diffed"
    /\ Len(result.Updated) = 1
    /\ Len(result.Deleted) = 1
    /\ DOMAIN result.Updated[1].Before = {"id"}
    /\ DOMAIN result.Updated[1].After = {"a", "id"}


\* The options of the assert with the onlyChanged flag turned over.
OtherOnlyChanged == [runOpts EXCEPT !.OnlyChanged = ~runOpts.OnlyChanged]

\* C23: the assert on the same snapshots, filter, ignore set and expected file
\* with the other value of onlyChanged ends the same way, in success or in
\* failure.
C23_VerdictIgnoresOnlyChanged ==
    (phase = "asserted" /\ FlagsComplete) =>
        \A run \in Run(store, OtherOnlyChanged) :
            (runAssertCmd(OtherOnlyChanged, expectedPath, run, expectedDoc).err = "")
                <=> (report.err = "")


(***************************************************************************)
(* Vocabulary of the claims about loading.                                 *)
(***************************************************************************)
\* The file of the table exists in the snapshot, can be read and is JSON.
Loadable(label, t) == HasFile(label, t) /\ t \notin DOMAIN store[label].unloadable

\* An element of a loaded array is an object, not a bare value.
IsObject(x) == "kind" \notin DOMAIN x

\* The rows a side contributes: the objects of its file, none when the load fails.
SideRows(label, t) ==
    IF Loadable(label, t)
    THEN SelectSeq(store[label].files[t], IsObject)
    ELSE <<>>

\* The load of the table fails on the first side and succeeds on the second.
FailsOnOneSide(t, failing, other) ==
    /\ phase = "ran"
    /\ t \in Diffed
    /\ ~Loadable(failing, t)
    /\ Loadable(other, t)

\* C24 as stated: when Run fails to load the file of a diffed table on one side
\* it returns no error, and every row of the other side (the objects of its
\* file) is reported as inserted, or as deleted, and nothing else is reported.
C24_FailedLoadIsEmptySide ==
    \A t \in TableNames :
        /\ FailsOnOneSide(t, runOpts.From, runOpts.To) =>
               /\ outcome.err = ""
               /\ IF t \in DOMAIN outcome.Tables
                  THEN /\ RowsIn(outcome.Tables[t].Inserted)
                              = RowsIn(SideRows(runOpts.To, t))
                       /\ outcome.Tables[t].Updated = <<>>
                       /\ outcome.Tables[t].Deleted = <<>>
                  ELSE runOpts.OnlyChanged /\ SideRows(runOpts.To, t) = <<>>
        /\ FailsOnOneSide(t, runOpts.To, runOpts.From) =>
               /\ outcome.err = ""
               /\ IF t \in DOMAIN outcome.Tables
                  THEN /\ RowsIn(outcome.Tables[t].Deleted)
                              = RowsIn(SideRows(runOpts.From, t))
                       /\ outcome.Tables[t].Updated = <<>>
                       /\ outcome.Tables[t].Inserted = <<>>
                  ELSE runOpts.OnlyChanged /\ SideRows(runOpts.From, t) = <<>>

\* C24 amended: when Run fails to load the file of a diffed table on one side
\* it returns no error, and the rows of the other side (the objects of its
\* file), the last row of each identity key, are exactly the rows reported as
\* inserted, or as deleted, each once, and nothing else is reported.
C24_FailedLoadIsEmptySideKeyed ==
    \A t \in TableNames :
        /\ FailsOnOneSide(t, runOpts.From, runOpts.To) =>
               /\ outcome.err = ""
               /\ IF t \in DOMAIN outcome.Tables
                  THEN /\ RowsIn(outcome.Tables[t].Inserted)
                              = KeyedRows(SideRows(runOpts.To, t))
                       /\ Len(outcome.Tables[t].Inserted)
                              = Cardinality(KeysOf(SideRows(runOpts.To, t)))
                       /\ outcome.Tables[t].Updated = <<>>
                       /\ outcome.Tables[t].Deleted = <<>>
                  ELSE runOpts.OnlyChanged /\ SideRows(runOpts.To, t) = <<>>
        /\ FailsOnOneSide(t, runOpts.To, runOpts.From) =>
               /\ outcome.err = ""
               /\ IF t \in DOMAIN outcome.Tables
                  THEN /\ RowsIn(outcome.Tables[t].Deleted)
                              = KeyedRows(SideRows(runOpts.From, t))
                       /\ Len(outcome.Tables[t].Deleted)
                              = Cardinality(KeysOf(SideRows(runOpts.From, t)))
                       /\ outcome.Tables[t].Updated = <<>>
                       /\ outcome.Tables[t].Inserted = <<>>
                  ELSE runOpts.OnlyChanged /\ SideRows(runOpts.From, t) = <<>>

\* The file of `users` in `pre` holds a row of `post` and is not JSON any
\* more: both rows of `post` are inserted.
C24_Witness ==
    /\ FailsOnOneSide("users", "pre", "post")
    /\ HasFile("pre", "users")
    /\ store["pre"].files["users"] = <<RowA>>
    /\ store["pre"].unloadable["users"] = "invalid"
    /\ store["post"].files["users"] = <<RowA, RowB>>
    /\ outcome.err = ""
    /\ Len(outcome.Tables["users"].Inserted) = 2


\* C25: after a snapshot run returned success for a label, the snapshot of the
\* label exists and its table list is exactly the set of tables the run saved.
C25_SnapshotHoldsWhatWasSaved ==
    (lastOp.op = "snapshot" /\ ~lastOp.err) =>
        /\ store[lastOp.label].exists
        /\ ~ListSnapshotTables(store, lastOp.label).err
        /\ ListSnapshotTables(store, lastOp.label).tables = lastOp.saved

\* C27: ListSnapshots returns exactly the labels saved with success since their
\* last delete; right after a successful delete of a label its table list and
\* every load from it fail; the delete of a label that does not exist returns
\* an error and leaves the store as it was.
C27_StoreFollowsSavesAndDeletes ==
    /\ ListSnapshots(store) = live
    /\ (lastOp.op = "rm" /\ ~lastOp.err) =>
           /\ ListSnapshotTables(store, lastOp.label).err
           /\ \A t \in TableNames : LoadSnapshot(store, lastOp.label, t).err
    /\ (lastOp.op = "rm" /\ ~lastOp.before[lastOp.label].exists) =>
           /\ lastOp.err
           /\ store = lastOp.before

\* The columns of an UpdatedRow that are on one side only or whose two values
\* are not deeply equal.
UnequalColumns(u) ==
    {k \in DOMAIN u.Before \cup DOMAIN u.After :
        \/ k \notin DOMAIN u.Before
        \/ k \notin DOMAIN u.After
        \/ ~DeepEqual(u.Before[k], u.After[k])}

\* The columns formatChanges names in its parts.
PartFields(parts) == {parts[i].field : i \in DOMAIN parts}

\* C26: for every UpdatedRow compareRows emits, over null, boolean, number,
\* string, sequence and mapping values, formatChanges and getChangedFields
\* complete without failure and report exactly the columns that are on one
\* side only or whose before and after values are not deeply equal, and that
\* set is not empty.
C26_HelpersReportChangedColumns ==
    fpc = "formatted" =>
        \A i \in DOMAIN fmtResult.Updated :
            LET u == fmtResult.Updated[i]
            IN  /\ ~shown.changes[i].panic
                /\ ~shown.fields[i].panic
                /\ PartFields(shown.changes[i].parts) = UnequalColumns(u)
                /\ {shown.fields[i].fields[j] : j \in DOMAIN shown.fields[i].fields}
                       = UnequalColumns(u)
                /\ UnequalColumns(u) # {}

====
